---- MODULE Spec2Model ----
(***************************************************************************)
(* Model of the serverless Socratic benchmark pipeline:                    *)
(*   Planner -> dialogue queue -> Runner -> (turn store, judge queue)      *)
(*           -> Judge -> (score store, run.judged event) -> Curator        *)
(*           -> (run summary, weekly aggregate).                           *)
(* Every Lambda invocation is a process whose steps are the storage,       *)
(* queue and inference calls of its handler; steps of different            *)
(* invocations interleave freely.  Scores are kept in hundredths.          *)
(***************************************************************************)
EXTENDS Integers, Sequences, FiniteSets, TLC

\* ---------------------------------------------------------------- bounds
MaxDay == 1
MaxRuns == 2
\* Planner invocations after the first, failed calls and deliveries of an
\* already delivered message, together.
MaxDisturbances == 1
\* max_turns and the number of simulated student replies of a dialogue
\* run on its own.
MaxTurns == 3
MaxReplies == 2
\* token_count and the number of "?" of a response scored on its own.
MaxTokens == 400
MaxQuestions == 3
\* max_retries of an invoke call.
MaxRetries == 3
\* Length of a model_id, in characters.
MaxIdLen == 3
\* Jobs of the config the Planner's handler is followed on, and entries a
\* batch send may refuse.
MaxJobs == 11
MaxFailed == 1
\* Most calls of update_weekly_aggregate for one bucket.
MaxFolds == 3

\* ------------------------------------------------------- program constants
DaysPerWeek == 7
COMPLIANCE_THRESHOLD == 50

NoItem == [none |-> TRUE]

\* --------------------------------------------------------------- configs
\* artifacts/config.json as load_config returns it: the models, and the
\* scenarios with their max_turns.
ConfigIds == {"c1", "c2"}

ConfigModels(cfg) ==
    IF cfg = "c1" THEN {"m1"} ELSE {"m1", "m2"}

ConfigScenarios(cfg) ==
    IF cfg = "c1" THEN {[id |-> "s1", max_turns |-> 3]}
                  ELSE {[id |-> "s2", max_turns |-> 0]}

RunIds == 1..MaxRuns
ModelIds == UNION {ConfigModels(cfg) : cfg \in ConfigIds}

\* created_dt.strftime("%Y-W%V"), day 0 being a Monday.
IsoWeek(date) == date \div DaysPerWeek
Buckets == {IsoWeek(d) : d \in 0..MaxDay} \X ModelIds

RunnerWorkers == 1..2
JudgeWorkers == 1..2
CuratorWorkers == 1..2

\* Turn indices a configured scenario can reach.
TurnIndices == 0..2
TurnKeys == RunIds \X TurnIndices

\* The AI responses the inference backend may return, by the features the
\* scorer reads: output tokens, number of "?", presence of a yes/no keyword,
\* number of cognitive verbs and of conceptual words present.
Responses ==
    { [tokens |-> 60,  questions |-> 1, yes_no |-> FALSE, cognitive |-> 1, conceptual |-> 1],
      [tokens |-> 250, questions |-> 0, yes_no |-> FALSE, cognitive |-> 0, conceptual |-> 0] }

VARIABLES
    today,          \* the UTC date the wall clock shows
    manifests,      \* MANIFEST#<id> items of the table
    ulidCounter,    \* number of ulid.new() values handed out
    dialogueQueue,  \* job messages sent to the dialogue-jobs queue
    planLog,        \* one record per Planner invocation
    runMeta,        \* RUN#<id>/META items of the table, by run id
    s3Turns,        \* raw/runs/<run_id>/turn_<NNN>.json objects
    turnItems,      \* RUN#<id>/TURN#<NNN> items of the table
    judgeQueue,     \* messages sent to the judge-jobs queue
    runner,         \* the Runner invocations in flight, by worker
    runnerTaken,    \* deliveries of each job message so far
    judgeTaken,     \* deliveries of the judge messages of each turn so far
    s3Judges,       \* raw/runs/<run_id>/judge_<NNN>.json objects, by key
    judgeItems,     \* RUN#<id>/JUDGE#<NNN> items of the table
    eventsEmitted,  \* run.judged events put on the bus, by run
    judge,          \* the Judge invocations in flight, by worker
    judged,         \* turns whose judge message has been processed to the end
    unreadable,     \* turns a delivery of their judge message could not load
    curatorTaken,   \* deliveries of the run.judged events of each run so far
    summaries,      \* RUN#<id>/SUMMARY items of the table, by run id
    weekly,         \* WEEK#<week>#MODEL#<id>/SUMMARY items, by bucket
    curator,        \* the Curator invocations in flight, by worker
    folds,          \* the writes of a weekly aggregate so far
    disturbances,   \* extra plans, failed calls and redeliveries so far
    everCompleted,  \* runs whose status has been set to completed
    raised,         \* Runner invocations of each run that ended by raising
    dialogue,       \* a call of run_dialogue with simulated student replies
    scoring,        \* a call of compute_vector_scores
    client,         \* a call of BedrockClient.invoke
    config,         \* a call of ModelConfig.from_dict
    heuristics,     \* a call of compute_heuristic_scores on a text
    planning,       \* a Planner invocation with its config load and batch sends
    metrics,        \* a call of compute_metrics on the items of a run
    aggregate,      \* a sequence of update_weekly_aggregate calls on one bucket
    legacy          \* a run of the legacy JudgeRunner over the turns of a dialogue

plannerVars == <<manifests, ulidCounter, dialogueQueue, planLog>>
runnerVars == <<runMeta, s3Turns, turnItems, judgeQueue, runner,
                runnerTaken, everCompleted, raised>>
judgeVars == <<judgeTaken, s3Judges, judgeItems, eventsEmitted, judge, judged,
               unreadable>>
curatorVars == <<curatorTaken, summaries, weekly, curator, folds>>
libVars == <<dialogue, scoring, client, config, heuristics, planning,
            metrics, aggregate, legacy>>
vars == <<today, plannerVars, runnerVars, judgeVars, curatorVars, disturbances,
          libVars>>

CanDisturb == disturbances < MaxDisturbances

\* ---------------------------------------------------------------- Planner
\* hashlib.sha256(canonical).hexdigest()[:12] of the canonical JSON: equal
\* configs give equal digests, different configs different ones.
content_hash(cfg) == cfg

generate_manifest_id(cfg, date) == <<date, content_hash(cfg)>>

\* The (model, scenario) matrix in the order of the nested loops; the k-th
\* pair gets the k-th fresh ULID.
JobPairs(cfg) == ConfigModels(cfg) \X ConfigScenarios(cfg)

RECURSIVE SetToSeq(_)
SetToSeq(S) ==
    IF S = {} THEN <<>>
    ELSE LET x == CHOOSE y \in S : TRUE IN <<x>> \o SetToSeq(S \ {x})

\* Variant of generate_run_jobs that draws one ULID for the whole matrix.
generate_run_jobs_one_ulid(manifest_id, cfg, firstUlid) ==
    LET pairs == SetToSeq(JobPairs(cfg)) IN
    { [run_id |-> firstUlid + 1,
       manifest_id |-> manifest_id,
       model_id |-> pairs[k][1],
       scenario_id |-> pairs[k][2].id,
       max_turns |-> pairs[k][2].max_turns] : k \in 1..Len(pairs) }

generate_run_jobs(manifest_id, cfg, firstUlid) ==
    LET pairs == SetToSeq(JobPairs(cfg)) IN
    { [run_id |-> firstUlid + k,
       manifest_id |-> manifest_id,
       model_id |-> pairs[k][1],
       scenario_id |-> pairs[k][2].id,
       max_turns |-> pairs[k][2].max_turns] : k \in 1..Len(pairs) }

Planner(cfg, date) ==
    LET manifest_id == generate_manifest_id(cfg, date)
        existed == manifest_id \in manifests
        jobs == generate_run_jobs(manifest_id, cfg, ulidCounter)
    IN  /\ Len(planLog) = 0 \/ CanDisturb
        /\ disturbances' = disturbances + (IF Len(planLog) = 0 THEN 0 ELSE 1)
        /\ date >= today
        /\ today' = date
        /\ ulidCounter + Cardinality(jobs) <= MaxRuns
        /\ manifests' = manifests \cup {manifest_id}
        /\ ulidCounter' = ulidCounter + Cardinality(jobs)
        /\ dialogueQueue' = dialogueQueue \cup jobs
        /\ planLog' = Append(planLog, [config |-> cfg,
                                       manifest_id |-> manifest_id,
                                       existed |-> existed,
                                       enqueued |-> Cardinality(jobs)])
        /\ UNCHANGED <<libVars, runnerVars, judgeVars, curatorVars>>

\* --------------------------------------------------------- Dialogue engine
\* The loop of run_dialogue: one turn per iteration, turn_index = turn_idx;
\* it goes on only while a simulated student reply is left.
RECURSIVE DialogueLoop(_, _, _, _, _)
DialogueLoop(turn_idx, max_turns, replies, ai, turns) ==
    IF turn_idx >= max_turns THEN turns
    ELSE LET turn == [turn_index |-> turn_idx, ai |-> ai[turn_idx + 1]]
             appended == Append(turns, turn)
         IN  IF Len(replies) > 0 /\ turn_idx < Len(replies)
             THEN DialogueLoop(turn_idx + 1, max_turns, replies, ai, appended)
             ELSE appended

\* Variant of run_dialogue that numbers the turns from 1.
run_dialogue_from_one(max_turns, replies, ai) ==
    LET turns == DialogueLoop(0, max_turns, replies, ai, <<>>) IN
    [k \in 1..Len(turns) |-> [turns[k] EXCEPT !.turn_index = @ + 1]]

run_dialogue(max_turns, replies, ai) ==
    DialogueLoop(0, max_turns, replies, ai, <<>>)

\* Number of turns run_dialogue produces, which is the number of inference
\* calls it makes.
Min(a, b) == IF a <= b THEN a ELSE b

DialogueLength(max_turns, replies) ==
    IF max_turns <= 0 THEN 0 ELSE Min(max_turns, Len(replies) + 1)

\* process_run passes no simulated_student_responses.
RunnerReplies == <<>>

\* ----------------------------------------------------------------- Runner
Idle == [pc |-> "idle"]

\* Variant of PutByKey that keeps the item already stored under the key.
PutByKey_appending(store, item) == store \cup {item}

\* put_item / put_object: the item with the same key is replaced.
PutByKey(store, item) ==
    {x \in store : ~(x.run_id = item.run_id /\ x.turn_index = item.turn_index)}
        \cup {item}

create_run_item(job, now) ==
    [status |-> "running", turn_count |-> -1, error |-> FALSE,
     manifest_id |-> job.manifest_id, model_id |-> job.model_id,
     scenario_id |-> job.scenario_id, created_at |-> now]

\* Variant of update_run_status that sets the status alone.
update_run_status_only_status(item, status, turn_count, error) ==
    [item EXCEPT !.status = status]

update_run_status(item, status, turn_count, error) ==
    [item EXCEPT !.status = status, !.turn_count = turn_count,
                 !.error = IF error THEN TRUE ELSE item.error]

\* Variant of enqueue_judge_job that names the turn after the one saved.
enqueue_judge_job_next_turn(queue, run_id, turn_index) ==
    [queue EXCEPT ![<<run_id, turn_index + 1>>] = @ + 1]

\* sqs.send_message: one more message {run_id, turn_index} in the queue.
enqueue_judge_job(queue, run_id, turn_index) ==
    [queue EXCEPT ![<<run_id, turn_index>>] = @ + 1]

FirstIdle(pool, workers) ==
    CHOOSE w \in workers :
        pool[w] = Idle /\ \A v \in workers : pool[v] = Idle => w <= v

\* A delivery of a job message: process_run up to create_run_item.
RunnerStart(run_id) ==
    /\ \E j \in dialogueQueue : j.run_id = run_id
    /\ runnerTaken[run_id] = 0 \/ CanDisturb
    /\ disturbances' = disturbances + (IF runnerTaken[run_id] = 0 THEN 0 ELSE 1)
    /\ \E w \in RunnerWorkers : runner[w] = Idle
    /\ LET w == FirstIdle(runner, RunnerWorkers)
           job == CHOOSE j \in dialogueQueue : j.run_id = run_id
       IN  /\ runner' = [runner EXCEPT ![w] =
                 [pc |-> "dialogue", job |-> job, turns |-> <<>>, idx |-> 0,
                  saved |-> {}, sent |-> <<>>]]
           /\ runMeta' = [runMeta EXCEPT ![run_id] = create_run_item(job, today)]
    /\ runnerTaken' = [runnerTaken EXCEPT ![run_id] = @ + 1]
    /\ UNCHANGED <<libVars, today, plannerVars, s3Turns, turnItems, judgeQueue,
                   everCompleted, raised, judgeVars, curatorVars>>

\* run_dialogue returns its turns, or the inference client raises.
RunnerDialogue(w) ==
    /\ runner[w].pc = "dialogue"
    /\ LET n == DialogueLength(runner[w].job.max_turns, RunnerReplies) IN
       \/ /\ \E ai \in [1..n -> Responses] :
                LET turns == run_dialogue(runner[w].job.max_turns, RunnerReplies, ai) IN
                runner' = [runner EXCEPT ![w].turns = turns, ![w].idx = 1,
                              ![w].pc = IF Len(turns) = 0 THEN "complete" ELSE "s3"]
          /\ UNCHANGED disturbances
       \/ /\ n > 0
          /\ CanDisturb
          /\ disturbances' = disturbances + 1
          /\ runner' = [runner EXCEPT ![w].pc = "fail"]
    /\ UNCHANGED <<libVars, judgeVars, curatorVars, today, plannerVars, runMeta, s3Turns, turnItems, judgeQueue,
                   runnerTaken, everCompleted, raised>>

\* Variant of RunnerRaise in which save_turn swallows the error of a write
\* and process_run goes on to enqueue_judge_job.
RunnerRaise_write_swallowed(w) ==
    /\ CanDisturb
    /\ disturbances' = disturbances + 1
    /\ runner' = [runner EXCEPT ![w].pc =
                     IF runner[w].pc \in {"s3", "ddb"} THEN "enqueue" ELSE "fail"]

RunnerRaise(w) ==
    /\ CanDisturb
    /\ disturbances' = disturbances + 1
    /\ runner' = [runner EXCEPT ![w].pc = "fail"]

\* save_turn, first half: the turn bundle goes to the blob store.
RunnerSaveS3(w) ==
    /\ runner[w].pc = "s3"
    /\ LET r == runner[w]
           turn == r.turns[r.idx] IN
       \/ /\ s3Turns' = PutByKey(s3Turns, [run_id |-> r.job.run_id,
                                           turn_index |-> turn.turn_index,
                                           ai |-> turn.ai])
          /\ runner' = [runner EXCEPT ![w].pc = "ddb"]
          /\ UNCHANGED disturbances
       \/ RunnerRaise(w) /\ UNCHANGED s3Turns
    /\ UNCHANGED <<libVars, judgeVars, curatorVars, today, plannerVars, runMeta, turnItems, judgeQueue,
                   runnerTaken, everCompleted, raised>>

\* Variant of RunnerSaveItem in which save_turn goes on without the
\* put_item of the TURN item.
RunnerSaveItem_unwritten(w) ==
    /\ runner[w].pc = "ddb"
    /\ runner' = [runner EXCEPT ![w].pc = "enqueue",
                     ![w].saved = @ \cup {runner[w].turns[runner[w].idx].turn_index}]
    /\ UNCHANGED <<libVars, judgeVars, curatorVars, today, plannerVars, runMeta, s3Turns, judgeQueue,
                   runnerTaken, everCompleted, raised, disturbances, turnItems>>

\* save_turn, second half: the TURN item goes to the table.
RunnerSaveItem(w) ==
    /\ runner[w].pc = "ddb"
    /\ LET r == runner[w]
           turn == r.turns[r.idx] IN
       \/ /\ turnItems' = PutByKey(turnItems, [run_id |-> r.job.run_id,
                                               turn_index |-> turn.turn_index,
                                               output_tokens |-> turn.ai.tokens])
          /\ runner' = [runner EXCEPT ![w].pc = "enqueue",
                           ![w].saved = @ \cup {turn.turn_index}]
          /\ UNCHANGED disturbances
       \/ RunnerRaise(w) /\ UNCHANGED turnItems
    /\ UNCHANGED <<libVars, judgeVars, curatorVars, today, plannerVars, runMeta, s3Turns, judgeQueue,
                   runnerTaken, everCompleted, raised>>

\* enqueue_judge_job, then the next iteration of the loop over the turns.
RunnerEnqueue(w) ==
    /\ runner[w].pc = "enqueue"
    /\ LET r == runner[w]
           turn == r.turns[r.idx] IN
       \/ /\ judgeQueue' = enqueue_judge_job(judgeQueue, r.job.run_id, turn.turn_index)
          /\ runner' = [runner EXCEPT ![w].idx = r.idx + 1,
                           ![w].sent = Append(@, turn.turn_index),
                           ![w].pc = IF r.idx < Len(r.turns) THEN "s3" ELSE "complete"]
          /\ UNCHANGED disturbances
       \/ RunnerRaise(w) /\ UNCHANGED judgeQueue
    /\ UNCHANGED <<libVars, judgeVars, curatorVars, today, plannerVars, runMeta, s3Turns, turnItems,
                   runnerTaken, everCompleted, raised>>

\* update_run_status(run_id, "completed", len(result.turns)) and return.
RunnerComplete(w) ==
    /\ runner[w].pc = "complete"
    /\ LET r == runner[w]
           run_id == r.job.run_id IN
       \/ /\ runMeta' = [runMeta EXCEPT ![run_id] =
                 update_run_status(runMeta[run_id], "completed", Len(r.turns), FALSE)]
          /\ everCompleted' = everCompleted \cup {run_id}
          /\ runner' = [runner EXCEPT ![w] = Idle]
          /\ UNCHANGED disturbances
       \/ RunnerRaise(w) /\ UNCHANGED <<runMeta, everCompleted>>
    /\ UNCHANGED <<libVars, judgeVars, curatorVars, today, plannerVars, s3Turns, turnItems, judgeQueue,
                   runnerTaken, raised>>

\* The except branch: update_run_status(run_id, "failed", 0, error), raise;
\* lambda_handler raises it on to the queue.
RunnerFail(w) ==
    /\ runner[w].pc = "fail"
    /\ LET run_id == runner[w].job.run_id IN
         runMeta' = [runMeta EXCEPT ![run_id] =
             update_run_status(runMeta[run_id], "failed", 0, TRUE)]
    /\ raised' = [raised EXCEPT ![runner[w].job.run_id] = @ + 1]
    /\ runner' = [runner EXCEPT ![w] = Idle]
    /\ UNCHANGED <<libVars, judgeVars, curatorVars, today, plannerVars, s3Turns, turnItems, judgeQueue,
                   runnerTaken, everCompleted, disturbances>>

\* ----------------------------------------------------------------- Scorer
\* round(x, 2) of the rational num/den >= 0, in hundredths of the unit den:
\* nearest integer, ties to even.
RoundHalfEven(num, den) ==
    LET q == num \div den
        r == num % den
    IN  IF 2 * r < den THEN q
        ELSE IF 2 * r > den THEN q + 1
        ELSE IF q % 2 = 0 THEN q ELSE q + 1

Max(a, b) == IF a >= b THEN a ELSE b

compute_heuristic_scores(resp) ==
    [has_question |-> resp.questions > 0,
     question_count |-> resp.questions,
     is_open_ended |-> resp.questions > 0 /\ ~resp.yes_no]

\* Variant of the verbosity curve without the floor max(0.0, ...).
Verbosity200_no_floor(token_count) ==
    IF token_count < 50 THEN 4 * token_count
    ELSE IF token_count <= 150 THEN 200
    ELSE 200 - (token_count - 150)

\* The three vectors in units of 1/200, before rounding.
Verbosity200(token_count) ==
    IF token_count < 50 THEN 4 * token_count
    ELSE IF token_count <= 150 THEN 200
    ELSE Max(0, 200 - (token_count - 150))

\* Variant of the interrogative table that rewards each further question.
Interrogative200_more_is_better(question_count, is_open_ended) ==
    IF question_count = 0 THEN 0
    ELSE IF is_open_ended THEN Min(200, 180 + question_count * 20)
    ELSE 80 + question_count * 20

Interrogative200(question_count, is_open_ended) ==
    IF question_count = 0 THEN 0
    ELSE IF question_count = 1 /\ is_open_ended THEN 200
    ELSE IF question_count = 1 /\ ~is_open_ended THEN 100
    ELSE IF question_count >= 2 /\ is_open_ended
         THEN Max(140, 200 - (question_count - 1) * 20)
    ELSE Max(60, 100 - (question_count - 1) * 20)

Exploratory200(resp) ==
    LET base_score == IF resp.questions > 0 THEN 100 ELSE 60
        cognitive_bonus == Min(60, resp.cognitive * 20)
        conceptual_bonus == Min(40, resp.conceptual * 20)
    IN  Min(200, base_score + cognitive_bonus + conceptual_bonus)

\* compute_vector_scores with use_llm_exploratory = False: the scores dict,
\* in hundredths.  No score of a response in Responses lies halfway between
\* two hundredths, so the rounding is the one of the float arithmetic; for
\* arbitrary responses see VectorScoreResults.
compute_vector_scores(resp, token_count) ==
    LET h == compute_heuristic_scores(resp)
        v == Verbosity200(token_count)
        i == Interrogative200(h.question_count, h.is_open_ended)
        e == Exploratory200(resp)
    IN  [verbosity |-> RoundHalfEven(v, 2),
         exploratory |-> RoundHalfEven(e, 2),
         interrogative |-> RoundHalfEven(i, 2),
         overall |-> RoundHalfEven(v + e + i, 6)]

\* round(x, 2) of the binary float nearest to num/den: where num/den lies
\* halfway between two hundredths the float lies on either side of it, and
\* the result is one of the two neighbours; elsewhere it is the nearest.
Round2(num, den) ==
    IF 2 * (num % den) = den THEN {num \div den, num \div den + 1}
    ELSE {RoundHalfEven(num, den)}

\* The text the judge model returns for the exploratory prompt, or the call
\* raising.
LlmOutcomes == {"0.75", "1.5", "-0.2", "Deep probing.", "raises"}

LlmFailed(outcome) == outcome \in {"Deep probing.", "raises"}

\* float(score_text), in units of 1/200.
ParseScore200(score_text) ==
    IF score_text = "0.75" THEN 150
    ELSE IF score_text = "1.5" THEN 300
    ELSE -40

\* _llm_exploratory_score: the clamped score, or the fallback of the
\* except branch.
llm_exploratory_score(resp, outcome) ==
    IF LlmFailed(outcome)
    THEN (IF resp.questions > 0 THEN 100 ELSE 60)
    ELSE Max(0, Min(200, ParseScore200(outcome)))

\* Variant of OverallOf that leaves the interrogative score out of the mean.
OverallOf_two_vectors(v, e, i) == Round2(v + e, 4)

\* overall = (verbosity + exploratory + interrogative) / 3.0 and
\* round(overall, 2): the mean of the three scores before they are rounded,
\* in units of 1/200, as hundredths.
OverallOf(v, e, i) == Round2(v + e + i, 6)

\* The JudgeResults compute_vector_scores can return: outcome is the
\* judge-model call's when use_llm_exploratory is set, "none" when not.
VectorScoreResults(resp, token_count, outcome) ==
    LET h == compute_heuristic_scores(resp)
        v == Verbosity200(token_count)
        i == Interrogative200(h.question_count, h.is_open_ended)
        e == IF outcome = "none" THEN Exploratory200(resp)
             ELSE llm_exploratory_score(resp, outcome)
    IN  { [scores |-> [verbosity |-> rv, exploratory |-> re,
                       interrogative |-> ri, overall |-> ro],
           error |-> "None"] :
            rv \in Round2(v, 2), re \in Round2(e, 2), ri \in Round2(i, 2),
            ro \in OverallOf(v, e, i) }

\* ------------------------------------------------------------------ Judge
ItemsOfRun(store, run_id) == {x \in store : x.run_id = run_id}

\* Variant of check_all_turns_judged that counts the items of every run.
check_all_turns_judged_any_run(turns, judges, run_id) ==
    Cardinality(turns) > 0 /\ Cardinality(turns) = Cardinality(judges)

\* Variant of check_all_turns_judged that asks for more than one TURN item.
check_all_turns_judged_several_turns(turns, judges, run_id) ==
    LET turn_count == Cardinality(ItemsOfRun(turns, run_id))
        judge_count == Cardinality(ItemsOfRun(judges, run_id))
    IN  turn_count > 1 /\ turn_count = judge_count

\* table.query(PK = RUN#<run_id>), then the TURN# and JUDGE# counts.
check_all_turns_judged(turns, judges, run_id) ==
    LET turn_count == Cardinality(ItemsOfRun(turns, run_id))
        judge_count == Cardinality(ItemsOfRun(judges, run_id))
    IN  turn_count > 0 /\ turn_count = judge_count

JudgeRaise(w) ==
    /\ CanDisturb
    /\ disturbances' = disturbances + 1
    /\ judge' = [judge EXCEPT ![w] = Idle]

\* Variant of JudgeLoadFails in which the handler prints the error and
\* returns, so that the message counts as processed.
JudgeLoadFails_swallowed(key) ==
    /\ UNCHANGED judge
    /\ judged' = judged \cup {key}
    /\ unreadable' = unreadable \cup {key}

\* s3.get_object raises in load_turn_bundle: the exception leaves
\* judge_turn_job and the handler raises it again, the message stays with
\* the queue.
JudgeLoadFails(key) ==
    /\ UNCHANGED <<judge, judged>>
    /\ unreadable' = unreadable \cup {key}

\* A delivery of a judge message: load_turn_bundle, then the scores.
JudgeStart(key) ==
    /\ judgeQueue[key] > 0
    /\ judgeTaken[key] < judgeQueue[key] \/ CanDisturb
    /\ judgeTaken' = [judgeTaken EXCEPT ![key] = @ + 1]
    /\ \E w \in JudgeWorkers : judge[w] = Idle
    /\ LET w == FirstIdle(judge, JudgeWorkers)
           found == {b \in s3Turns : b.run_id = key[1] /\ b.turn_index = key[2]}
       IN  \/ /\ found # {}
              /\ LET turn_bundle == CHOOSE b \in found : TRUE IN
                   judge' = [judge EXCEPT ![w] =
                      [pc |-> "save", run_id |-> key[1], turn_index |-> key[2],
                       heuristics |-> compute_heuristic_scores(turn_bundle.ai),
                       scores |-> compute_vector_scores(turn_bundle.ai,
                                                        turn_bundle.ai.tokens)]]
              /\ disturbances' = disturbances +
                    (IF judgeTaken[key] < judgeQueue[key] THEN 0 ELSE 1)
              /\ UNCHANGED <<judged, unreadable>>
           \/ /\ judgeTaken[key] < judgeQueue[key]
              /\ CanDisturb
              /\ disturbances' = disturbances + 1
              /\ JudgeLoadFails(key)
    /\ UNCHANGED <<libVars, curatorVars, today, plannerVars, runnerVars, s3Judges, judgeItems,
                   eventsEmitted>>

\* save_judge_result: the judge JSON to the blob store, the JUDGE item to
\* the table.
JudgeSave(w) ==
    /\ judge[w].pc = "save"
    /\ LET j == judge[w] IN
       \/ /\ s3Judges' = s3Judges \cup {<<j.run_id, j.turn_index>>}
          /\ judgeItems' = PutByKey(judgeItems,
                 [run_id |-> j.run_id, turn_index |-> j.turn_index,
                  overall_score |-> j.scores.overall,
                  has_question |-> j.heuristics.has_question,
                  is_open_ended |-> j.heuristics.is_open_ended])
          /\ judge' = [judge EXCEPT ![w].pc = "check"]
          /\ UNCHANGED disturbances
       \/ JudgeRaise(w) /\ UNCHANGED <<s3Judges, judgeItems>>
    /\ UNCHANGED <<libVars, curatorVars, today, plannerVars, runnerVars, judgeTaken, eventsEmitted,
                   judged, unreadable>>

\* check_all_turns_judged and, when it holds, emit_run_judged_event.
JudgeCheck(w) ==
    /\ judge[w].pc = "check"
    /\ LET run_id == judge[w].run_id IN
       \/ /\ eventsEmitted' =
                IF check_all_turns_judged(turnItems, judgeItems, run_id)
                THEN [eventsEmitted EXCEPT ![run_id] = @ + 1]
                ELSE eventsEmitted
          /\ judge' = [judge EXCEPT ![w] = Idle]
          /\ judged' = judged \cup {<<run_id, judge[w].turn_index>>}
          /\ UNCHANGED disturbances
       \/ JudgeRaise(w) /\ UNCHANGED <<eventsEmitted, judged>>
    /\ UNCHANGED <<libVars, curatorVars, today, plannerVars, runnerVars, judgeTaken, s3Judges,
                   judgeItems, unreadable>>


\* ---------------------------------------------------------------- Curator
\* sorted(items, key = turn_index)
RECURSIVE SortedByTurnIndex(_)
SortedByTurnIndex(items) ==
    IF items = {} THEN <<>>
    ELSE LET first == CHOOSE x \in items :
                         \A y \in items : x.turn_index <= y.turn_index
         IN  <<first>> \o SortedByTurnIndex(items \ {first})

\* Variant of Compliant that does not count a score equal to the threshold.
Compliant_strictly_above(score) == score > COMPLIANCE_THRESHOLD

\* if score >= COMPLIANCE_THRESHOLD
Compliant(score) == score >= COMPLIANCE_THRESHOLD

\* The loop of compute_metrics over the judges: the sum of the scores, the
\* compliant count and the half-life (-1 while None).
RECURSIVE MetricsLoop(_, _, _, _, _)
MetricsLoop(judges, k, sum, compliant_count, half_life) ==
    IF k > Len(judges) THEN
        [sum |-> sum, compliant_count |-> compliant_count, half_life |-> half_life]
    ELSE LET score == judges[k].overall_score IN
         IF Compliant(score)
         THEN MetricsLoop(judges, k + 1, sum + score, compliant_count + 1, half_life)
         ELSE MetricsLoop(judges, k + 1, sum + score, compliant_count,
                          IF half_life = -1 THEN judges[k].turn_index ELSE half_life)

RECURSIVE SumTokens(_, _)
SumTokens(turns, k) ==
    IF k > Len(turns) THEN 0 ELSE turns[k].output_tokens + SumTokens(turns, k + 1)

\* Variant of compute_metrics whose half-life is that of the last judge
\* below the threshold.
compute_metrics_last_below(turns, judges) ==
    LET m == MetricsLoop(judges, 1, 0, 0, -1)
        n == Len(judges)
        below == {k \in 1..n : ~Compliant(judges[k].overall_score)}
        has_question_count == Cardinality({k \in 1..n : judges[k].has_question})
        open_ended_count == Cardinality({k \in 1..n : judges[k].is_open_ended})
    IN  [turn_count |-> Len(turns),
         overall_score |-> IF n > 0 THEN RoundHalfEven(m.sum, n) ELSE 0,
         compliance_rate |-> IF n > 0 THEN RoundHalfEven(100 * m.compliant_count, n) ELSE 0,
         half_life |-> IF below # {}
                       THEN judges[CHOOSE k \in below : \A j \in below : j <= k].turn_index
                       ELSE Len(turns),
         violation_rate |-> IF n > 0 THEN 100 - RoundHalfEven(100 * has_question_count, n) ELSE 0,
         open_ended_rate |-> IF n > 0 THEN RoundHalfEven(100 * open_ended_count, n) ELSE 0,
         total_output_tokens |-> SumTokens(turns, 1)]

compute_metrics(turns, judges) ==
    LET m == MetricsLoop(judges, 1, 0, 0, -1)
        n == Len(judges)
        has_question_count == Cardinality({k \in 1..n : judges[k].has_question})
        open_ended_count == Cardinality({k \in 1..n : judges[k].is_open_ended})
    IN  [turn_count |-> Len(turns),
         overall_score |-> IF n > 0 THEN RoundHalfEven(m.sum, n) ELSE 0,
         compliance_rate |-> IF n > 0 THEN RoundHalfEven(100 * m.compliant_count, n) ELSE 0,
         half_life |-> IF m.half_life # -1 THEN m.half_life ELSE Len(turns),
         violation_rate |-> IF n > 0 THEN 100 - RoundHalfEven(100 * has_question_count, n) ELSE 0,
         open_ended_rate |-> IF n > 0 THEN RoundHalfEven(100 * open_ended_count, n) ELSE 0,
         total_output_tokens |-> SumTokens(turns, 1)]

\* Variant of save_summary that adds the new counts to the stored ones.
save_summary_accumulating(existing, summary) ==
    IF existing = NoItem THEN summary
    ELSE [summary EXCEPT !.turn_count = @ + existing.turn_count,
                         !.total_output_tokens = @ + existing.total_output_tokens]

\* table.put_item of the RUN#<id>/SUMMARY item: the item stored afterwards.
save_summary(existing, summary) == summary

BucketOf(run_meta) == <<IsoWeek(run_meta.created_at), run_meta.model_id>>

\* The item update_weekly_aggregate puts, from the item it read.
update_weekly_aggregate(existing, summary) ==
    LET run_count == (IF existing = NoItem THEN 0 ELSE existing.run_count) + 1
        new_total_score ==
            (IF existing = NoItem THEN 0 ELSE existing.total_score) + summary.overall_score
        new_total_compliance ==
            (IF existing = NoItem THEN 0 ELSE existing.total_compliance)
                + summary.compliance_rate
    IN  [run_count |-> run_count,
         total_score |-> new_total_score,
         mean_score |-> RoundHalfEven(new_total_score, run_count),
         total_compliance |-> new_total_compliance,
         mean_compliance |-> RoundHalfEven(new_total_compliance, run_count)]

\* Variant of HasRunData without the check of load_run_meta.
HasRunData_items_only(run_meta, turns, judges) ==
    Len(turns) > 0 /\ Len(judges) > 0

\* load_run_meta found the RUN item, and neither list of load_turn_data is
\* empty; else curate_run raises ValueError.
HasRunData(run_meta, turns, judges) ==
    run_meta # NoItem /\ Len(turns) > 0 /\ Len(judges) > 0

\* A delivery of a run.judged event: curate_run up to save_summary and
\* materialize_run_json; when it raises, nothing has been written.
CuratorStart(run_id) ==
    /\ eventsEmitted[run_id] > 0
    /\ curatorTaken[run_id] < eventsEmitted[run_id] \/ CanDisturb
    /\ curatorTaken' = [curatorTaken EXCEPT ![run_id] = @ + 1]
    /\ \E w \in CuratorWorkers : curator[w] = Idle
    /\ LET w == FirstIdle(curator, CuratorWorkers)
           first == curatorTaken[run_id] < eventsEmitted[run_id]
           run_meta == runMeta[run_id]
           turns == SortedByTurnIndex(ItemsOfRun(turnItems, run_id))
           judges == SortedByTurnIndex(ItemsOfRun(judgeItems, run_id))
           summary == compute_metrics(turns, judges)
       IN  \/ /\ HasRunData(run_meta, turns, judges)
              /\ summaries' = [summaries EXCEPT ![run_id] = save_summary(@, summary)]
              /\ curator' = [curator EXCEPT ![w] =
                    [pc |-> "read", run_id |-> run_id, run_meta |-> run_meta,
                     summary |-> summary, existing |-> NoItem]]
              /\ disturbances' = disturbances + (IF first THEN 0 ELSE 1)
           \/ /\ ~HasRunData(run_meta, turns, judges)
              /\ disturbances' = disturbances + (IF first THEN 0 ELSE 1)
              /\ UNCHANGED <<summaries, curator>>
           \/ /\ first
              /\ CanDisturb
              /\ disturbances' = disturbances + 1
              /\ UNCHANGED <<summaries, curator>>
    /\ UNCHANGED <<libVars, today, plannerVars, runnerVars, judgeVars, weekly, folds>>

\* update_weekly_aggregate, the get_item; a failed read counts as no item.
CuratorRead(w) ==
    /\ curator[w].pc = "read"
    /\ \/ /\ curator' = [curator EXCEPT ![w].pc = "write",
                           ![w].existing = weekly[BucketOf(curator[w].run_meta)]]
          /\ UNCHANGED disturbances
       \/ /\ CanDisturb
          /\ disturbances' = disturbances + 1
          /\ curator' = [curator EXCEPT ![w].pc = "write", ![w].existing = NoItem]
    /\ UNCHANGED <<libVars, today, plannerVars, runnerVars, judgeVars, curatorTaken,
                   summaries, weekly, folds>>

\* update_weekly_aggregate, the put_item.
CuratorWrite(w) ==
    /\ curator[w].pc = "write"
    /\ LET c == curator[w]
           bucket == BucketOf(c.run_meta)
           nth == Cardinality({f \in folds : f.run_id = c.run_id}) + 1 IN
       \/ /\ weekly' = [weekly EXCEPT ![bucket] =
                           update_weekly_aggregate(c.existing, c.summary)]
          /\ folds' = folds \cup {[run_id |-> c.run_id, nth |-> nth, bucket |-> bucket,
                                   overall_score |-> c.summary.overall_score,
                                   compliance_rate |-> c.summary.compliance_rate]}
          /\ UNCHANGED disturbances
       \/ /\ CanDisturb
          /\ disturbances' = disturbances + 1
          /\ UNCHANGED <<weekly, folds>>
    /\ curator' = [curator EXCEPT ![w] = Idle]
    /\ UNCHANGED <<libVars, today, plannerVars, runnerVars, judgeVars, curatorTaken,
                   summaries>>


\* The library functions, not called.
NotCalled == [pc |-> "none"]

InitPipeline ==
    /\ today = 0
    /\ manifests = {}
    /\ ulidCounter = 0
    /\ dialogueQueue = {}
    /\ planLog = <<>>
    /\ runMeta = [r \in RunIds |-> NoItem]
    /\ s3Turns = {}
    /\ turnItems = {}
    /\ judgeQueue = [k \in TurnKeys |-> 0]
    /\ judgeTaken = [k \in TurnKeys |-> 0]
    /\ s3Judges = {}
    /\ judgeItems = {}
    /\ eventsEmitted = [r \in RunIds |-> 0]
    /\ judged = {}
    /\ unreadable = {}
    /\ judge = [w \in JudgeWorkers |-> Idle]
    /\ runner = [w \in RunnerWorkers |-> Idle]
    /\ runnerTaken = [r \in RunIds |-> 0]
    /\ curatorTaken = [r \in RunIds |-> 0]
    /\ summaries = [r \in RunIds |-> NoItem]
    /\ weekly = [b \in Buckets |-> NoItem]
    /\ curator = [w \in CuratorWorkers |-> Idle]
    /\ folds = {}
    /\ disturbances = 0
    /\ everCompleted = {}
    /\ raised = [r \in RunIds |-> 0]

Init ==
    /\ InitPipeline
    /\ dialogue = NotCalled
    /\ scoring = NotCalled
    /\ client = NotCalled
    /\ config = NotCalled
    /\ heuristics = NotCalled
    /\ planning = NotCalled
    /\ metrics = NotCalled
    /\ aggregate = NotCalled
    /\ legacy = NotCalled

Next ==
    \/ \E cfg \in ConfigIds, date \in 0..MaxDay : Planner(cfg, date)
    \/ \E run_id \in RunIds : RunnerStart(run_id)
    \/ \E w \in RunnerWorkers :
          \/ RunnerDialogue(w)
          \/ RunnerSaveS3(w)
          \/ RunnerSaveItem(w)
          \/ RunnerEnqueue(w)
          \/ RunnerComplete(w)
          \/ RunnerFail(w)
    \/ \E key \in TurnKeys : JudgeStart(key)
    \/ \E w \in JudgeWorkers :
          \/ JudgeSave(w)
          \/ JudgeCheck(w)
    \/ \E run_id \in RunIds : CuratorStart(run_id)
    \/ \E w \in CuratorWorkers :
          \/ CuratorRead(w)
          \/ CuratorWrite(w)

Spec == Init /\ [][Next]_vars

\* ------------------------------------------------- run_dialogue on its own
\* run_dialogue called with simulated_student_responses, one inference call
\* per step, by a caller that handles the outcome as process_run does.
\* The student's utterances: 0 is scenario["prompt"], k the k-th element of
\* simulated_student_responses.
ScenarioPrompt == [student |-> 0]
ReplySeqs == {[k \in 1..n |-> [student |-> k]] : n \in 0..MaxReplies}

\* Variant of MoreReplies that wants a reply left after the next one.
MoreReplies_one_short(replies, turn_idx) ==
    Len(replies) > 0 /\ turn_idx + 1 < Len(replies)

\* simulated_student_responses and turn_idx < len(simulated_student_responses)
MoreReplies(replies, turn_idx) ==
    Len(replies) > 0 /\ turn_idx < Len(replies)

\* A prompt, by the utterances it renders in their order:
\* socratic_tutor_prompt renders the student's utterance,
\* socratic_tutor_followup_prompt every entry of the history it is given.
Said(role, content) == [role |-> role, content |-> content]

socratic_tutor_prompt(student_utterance) ==
    [followup |-> FALSE, lines |-> <<Said("student", student_utterance)>>]

socratic_tutor_followup_prompt(conversation_history) ==
    [followup |-> TRUE, lines |-> conversation_history]

InitDialogue ==
    /\ InitPipeline
    /\ dialogue \in {[pc |-> "loop", max_turns |-> n, replies |-> rs,
                       turn_idx |-> 0, turns |-> <<>>, persisted |-> <<>>,
                       student_utterance |-> ScenarioPrompt,
                       conversation_history |-> <<>>] :
                         n \in 0..MaxTurns, rs \in ReplySeqs}
    /\ scoring = NotCalled
    /\ client = NotCalled
    /\ config = NotCalled
    /\ heuristics = NotCalled
    /\ planning = NotCalled
    /\ metrics = NotCalled
    /\ aggregate = NotCalled
    /\ legacy = NotCalled

DialogueFrame ==
    UNCHANGED <<today, plannerVars, runnerVars, judgeVars, curatorVars,
                disturbances, scoring, client,
                config, heuristics, planning,
                metrics, aggregate, legacy>>

\* One iteration of the loop: the prompt is built (on a follow-up turn after
\* two entries were added to the history), bedrock_client.invoke returns,
\* the turn is appended, and the loop goes on with the next simulated reply
\* if one is left.
DialogueInvoke ==
    /\ dialogue.pc = "loop"
    /\ dialogue.turn_idx < dialogue.max_turns
    /\ \E resp \in Responses :
          LET d == dialogue
              history ==
                 IF d.turn_idx = 0 THEN d.conversation_history
                 ELSE d.conversation_history
                         \o <<Said("student", d.student_utterance),
                              Said("ai", d.turns[Len(d.turns)].ai)>>
              prompt ==
                 IF d.turn_idx = 0
                 THEN socratic_tutor_prompt(d.student_utterance)
                 ELSE socratic_tutor_followup_prompt(
                         history \o <<Said("student", d.student_utterance)>>)
              turn == [turn_index |-> d.turn_idx, ai |-> resp,
                       student_utterance |-> d.student_utterance,
                       prompt |-> prompt]
              more == MoreReplies(d.replies, d.turn_idx)
          IN  dialogue' = [d EXCEPT
                 !.conversation_history = history,
                 !.turns = Append(@, turn),
                 !.student_utterance =
                     IF more THEN d.replies[d.turn_idx + 1] ELSE @,
                 !.turn_idx = IF more THEN @ + 1 ELSE @,
                 !.pc = IF more THEN "loop" ELSE "break"]
    /\ DialogueFrame

\* bedrock_client.invoke raises: the exception leaves run_dialogue, whose
\* local list of turns is not returned.
DialogueInvokeRaises ==
    /\ dialogue.pc = "loop"
    /\ dialogue.turn_idx < dialogue.max_turns
    /\ dialogue' = [dialogue EXCEPT !.pc = "raised"]
    /\ DialogueFrame

\* return DialogueResult(turns = turns), and the caller's loop over
\* result.turns that saves each turn.
DialogueReturn ==
    /\ \/ dialogue.pc = "break"
       \/ dialogue.pc = "loop" /\ dialogue.turn_idx >= dialogue.max_turns
    /\ dialogue' = [dialogue EXCEPT !.pc = "completed", !.persisted = dialogue.turns]
    /\ DialogueFrame

\* The caller's except branch: the run is marked failed, nothing is saved,
\* the exception is raised again.
DialogueExcept ==
    /\ dialogue.pc = "raised"
    /\ dialogue' = [dialogue EXCEPT !.pc = "failed"]
    /\ DialogueFrame

NextDialogue ==
    \/ DialogueInvoke
    \/ DialogueInvokeRaises
    \/ DialogueReturn
    \/ DialogueExcept

SpecDialogue == InitDialogue /\ [][NextDialogue]_vars

\* run_dialogue with every step it can take taken in the end: an inference
\* call returns or raises, the loop and the caller go on.
SpecDialogueFair == SpecDialogue /\ WF_vars(NextDialogue)

\* ------------------------------------------- compute_vector_scores on its own
\* A response by the features the scorer reads, with its token count.
ScoredResponses ==
    [tokens : 0..MaxTokens, questions : 0..MaxQuestions, yes_no : BOOLEAN,
     cognitive : 0..1, conceptual : 0..1]

InitScoring ==
    /\ InitPipeline
    /\ dialogue = NotCalled
    /\ scoring \in {[pc |-> "call", resp |-> resp, use_llm_exploratory |-> u] :
                       resp \in ScoredResponses, u \in BOOLEAN}
    /\ client = NotCalled
    /\ config = NotCalled
    /\ heuristics = NotCalled
    /\ planning = NotCalled
    /\ metrics = NotCalled
    /\ aggregate = NotCalled
    /\ legacy = NotCalled

ScoringFrame ==
    UNCHANGED <<today, plannerVars, runnerVars, judgeVars, curatorVars,
                disturbances, dialogue, client,
                config, heuristics, planning,
                metrics, aggregate, legacy>>

\* compute_vector_scores(ai_response, token_count): the heuristic branch.
ScoreHeuristic ==
    /\ scoring.pc = "call"
    /\ ~scoring.use_llm_exploratory
    /\ \E result \in VectorScoreResults(scoring.resp, scoring.resp.tokens, "none") :
          scoring' = [pc |-> "returned", resp |-> scoring.resp,
                      use_llm_exploratory |-> FALSE, outcome |-> "none",
                      result |-> result]
    /\ ScoringFrame

\* compute_vector_scores(ai_response, token_count, True, bedrock_client):
\* the exploratory score comes from _llm_exploratory_score.
ScoreWithLlm ==
    /\ scoring.pc = "call"
    /\ scoring.use_llm_exploratory
    /\ \E outcome \in LlmOutcomes :
       \E result \in VectorScoreResults(scoring.resp, scoring.resp.tokens, outcome) :
          scoring' = [pc |-> "returned", resp |-> scoring.resp,
                      use_llm_exploratory |-> TRUE, outcome |-> outcome,
                      result |-> result]
    /\ ScoringFrame

NextScoring ==
    \/ ScoreHeuristic
    \/ ScoreWithLlm

SpecScoring == InitScoring /\ [][NextScoring]_vars

\* ------------------------------------------- BedrockClient.invoke on its own
\* What one pass through the try block can end in: the unified response is
\* returned, a botocore ClientError is raised by invoke_model, or any other
\* exception is raised (a botocore timeout or connection error, which are
\* no ClientError, or a response _extract_text cannot read).
ClientErrorCodes == {"ThrottlingException", "ValidationException",
                     "ModelTimeoutException"}
OtherErrors == {"ReadTimeoutError", "ValueError"}
CallOutcomes == {"ok"} \cup ClientErrorCodes \cup OtherErrors

\* The two ways a call times out: the HTTP read exceeds the client's read
\* timeout (botocore raises ReadTimeoutError), or the service gives up on
\* the model (a ClientError with code ModelTimeoutException).
Timeouts == {"ReadTimeoutError", "ModelTimeoutException"}

InitClient ==
    /\ InitPipeline
    /\ dialogue = NotCalled
    /\ scoring = NotCalled
    /\ client \in {[pc |-> "loop", max_retries |-> n, requires_profile |-> p,
                     attempt |-> 0, calls |-> <<>>, slept |-> 0] :
                       n \in 0..MaxRetries, p \in BOOLEAN}
    /\ config = NotCalled
    /\ heuristics = NotCalled
    /\ planning = NotCalled
    /\ metrics = NotCalled
    /\ aggregate = NotCalled
    /\ legacy = NotCalled

ClientFrame ==
    UNCHANGED <<today, plannerVars, runnerVars, judgeVars, curatorVars,
                disturbances, dialogue, scoring,
                config, heuristics, planning,
                metrics, aggregate, legacy>>

\* One iteration of `for attempt in range(max_retries)`.
InvokeAttempt(outcome) ==
    /\ client.pc = "loop"
    /\ client.attempt < client.max_retries
    /\ LET c == [client EXCEPT !.calls = Append(@, outcome)] IN
       client' =
          IF outcome = "ok"
          THEN [pc |-> "returned", max_retries |-> c.max_retries,
                requires_profile |-> c.requires_profile, attempt |-> c.attempt,
                calls |-> c.calls, slept |-> c.slept, result |-> Len(c.calls)]
          ELSE IF outcome \in ClientErrorCodes /\ c.attempt # c.max_retries - 1
          THEN [c EXCEPT !.attempt = @ + 1, !.slept = @ + 2 ^ (c.attempt + 1)]
          ELSE [pc |-> "raised", max_retries |-> c.max_retries,
                requires_profile |-> c.requires_profile, attempt |-> c.attempt,
                calls |-> c.calls, slept |-> c.slept,
                error |-> [exception |-> outcome, call |-> Len(c.calls)]]
    /\ ClientFrame

\* The statement after the loop, reached when range(max_retries) is empty.
InvokeFallsThrough ==
    /\ client.pc = "loop"
    /\ client.attempt >= client.max_retries
    /\ client' = [pc |-> "raised", max_retries |-> client.max_retries,
                  requires_profile |-> client.requires_profile,
                  attempt |-> client.attempt, calls |-> client.calls,
                  slept |-> client.slept,
                  error |-> [exception |-> "RuntimeError", call |-> 0]]
    /\ ClientFrame

NextClient ==
    \/ \E outcome \in CallOutcomes : InvokeAttempt(outcome)
    \/ InvokeFallsThrough

SpecClient == InitClient /\ [][NextClient]_vars

\* ------------------------------------------- ModelConfig.from_dict on its own
\* A model_id is a string over a small alphabet with the dot in it; a
\* provider is a string too.
IdChars == {"a", "m", "."}
ModelIdStrings == UNION {[1..n -> IdChars] : n \in 1..MaxIdLen}
Unknown == <<"u", "n", "k", "n", "o", "w", "n">>

\* "." in model_id, and model_id.split(".")[0].
HasDot(model_id) == \E k \in 1..Len(model_id) : model_id[k] = "."

FirstDot(model_id) ==
    CHOOSE k \in 1..Len(model_id) :
        model_id[k] = "." /\ \A j \in 1..(k - 1) : model_id[j] # "."

SplitDotFirst(model_id) ==
    IF HasDot(model_id) THEN SubSeq(model_id, 1, FirstDot(model_id) - 1)
    ELSE model_id

\* The contents model_capabilities.json may have: no file, or entries for
\* some model ids.
CapabilityRegistries ==
    { <<>>,
      [id \in {<<"a", ".", "m">>} |-> [provider |-> <<"r">>, requires_profile |-> FALSE]],
      [id \in {<<"m">>, <<"a", ".">>} |-> [provider |-> <<"r">>, requires_profile |-> TRUE]] }

\* The dictionaries given to from_dict: with or without a "provider" key.
ConfigDicts ==
    {[model_id |-> id] : id \in ModelIdStrings}
        \cup {[model_id |-> id, provider |-> p] :
                 id \in ModelIdStrings, p \in {<<"x">>, <<"a">>}}

\* Variant of from_dict in which the explicit provider goes first.
from_dict_explicit_first(data, MODEL_CAPABILITIES) ==
    LET model_id == data.model_id IN
    [model_id |-> model_id,
     provider |->
        IF "provider" \in DOMAIN data THEN data.provider
        ELSE IF model_id \in DOMAIN MODEL_CAPABILITIES
        THEN MODEL_CAPABILITIES[model_id].provider
        ELSE IF HasDot(model_id) THEN SplitDotFirst(model_id) ELSE Unknown]

from_dict(data, MODEL_CAPABILITIES) ==
    LET model_id == data.model_id IN
    [model_id |-> model_id,
     provider |->
        IF model_id \in DOMAIN MODEL_CAPABILITIES
        THEN MODEL_CAPABILITIES[model_id].provider
        ELSE IF "provider" \in DOMAIN data THEN data.provider
        ELSE IF HasDot(model_id) THEN SplitDotFirst(model_id) ELSE Unknown]

InitConfig ==
    /\ InitPipeline
    /\ dialogue = NotCalled
    /\ scoring = NotCalled
    /\ client = NotCalled
    /\ heuristics = NotCalled
    /\ planning = NotCalled
    /\ metrics = NotCalled
    /\ aggregate = NotCalled
    /\ legacy = NotCalled
    /\ config \in {[pc |-> "call", data |-> d, MODEL_CAPABILITIES |-> caps] :
                      d \in ConfigDicts, caps \in CapabilityRegistries}

FromDict ==
    /\ config.pc = "call"
    /\ config' = [pc |-> "returned", data |-> config.data,
                  MODEL_CAPABILITIES |-> config.MODEL_CAPABILITIES,
                  result |-> from_dict(config.data, config.MODEL_CAPABILITIES)]
    /\ UNCHANGED <<today, plannerVars, runnerVars, judgeVars, curatorVars,
                   disturbances, dialogue, scoring, client, heuristics, planning,
                   metrics, aggregate, legacy>>

NextConfig == FromDict

SpecConfig == InitConfig /\ [][NextConfig]_vars

\* ------------------------------------ compute_heuristic_scores on a text
\* A response text is the string of its characters.
OpenStarters ==
    { <<"W", "h", "a", "t">>,
      <<"W", "h", "y">>,
      <<"H", "o", "w">>,
      <<"W", "h", "e", "n">>,
      <<"W", "h", "e", "r", "e">>,
      <<"W", "h", "i", "c", "h">> }
ClosedStarters ==
    { <<"I", "s">>,
      <<"D", "o">>,
      <<"D", "o", "e", "s">>,
      <<"C", "a", "n">>,
      <<"S", "h", "o", "u", "l", "d">>,
      <<"W", "o", "u", "l", "d">>,
      <<"W", "i", "l", "l">>,
      <<"A", "r", "e">> }
QuestionRests ==
    { <<" ", "t", "h", "i", "s", " ", "s", "e", "e", "m", " ", "c", "o", "r", "r", "e", "c", "t", " ", "t", "o", " ", "y", "o", "u", "?">>,
      <<" ", "d", "o", " ", "y", "o", "u", " ", "t", "h", "i", "n", "k", " ", "a", "b", "o", "u", "t", " ", "t", "h", "i", "s", "?">>,
      <<" ", "s", "o", "?">>,
      <<" ", "i", "t", "?">>,
      <<" ", "n", "o", "w", "?">> }
QuestionTexts == {s \o r : s \in OpenStarters \cup ClosedStarters, r \in QuestionRests}

yes_no_keywords ==
    { <<"y", "e", "s">>,
      <<"n", "o">>,
      <<"i", "s", " ", "i", "t">>,
      <<"a", "r", "e", " ", "y", "o", "u">>,
      <<"d", "o", " ", "y", "o", "u">>,
      <<"d", "i", "d", " ", "y", "o", "u">>,
      <<"c", "a", "n", " ", "y", "o", "u">> }

\* str.lower(), on the capitals the texts have.
LowerChar(c) ==
    IF c = "A" THEN "a"
    ELSE IF c = "C" THEN "c"
    ELSE IF c = "D" THEN "d"
    ELSE IF c = "H" THEN "h"
    ELSE IF c = "I" THEN "i"
    ELSE IF c = "S" THEN "s"
    ELSE IF c = "W" THEN "w"
    ELSE c

Lower(text) == [k \in 1..Len(text) |-> LowerChar(text[k])]

\* keyword in text: the keyword is a substring of the text.
Contains(text, keyword) ==
    \E k \in 0..(Len(text) - Len(keyword)) :
        SubSeq(text, k + 1, k + Len(keyword)) = keyword

\* str.strip(): the text without its leading and trailing blanks.
RECURSIVE Strip(_)
Strip(text) ==
    IF Len(text) = 0 THEN text
    ELSE IF text[1] = " " THEN Strip(Tail(text))
    ELSE IF text[Len(text)] = " " THEN Strip(SubSeq(text, 1, Len(text) - 1))
    ELSE text

\* len(text.split()): the maximal runs of non-blank characters.
WordCount(text) ==
    Cardinality({k \in 1..Len(text) :
                    text[k] # " " /\ (k = 1 \/ text[k - 1] = " ")})

\* compute_heuristic_scores(ai_response), on the text itself.
compute_heuristic_scores_of_text(ai_response) ==
    LET text == Strip(ai_response)
        question_count == Cardinality({k \in 1..Len(text) : text[k] = "?"})
    IN  [has_question |-> question_count > 0,
         question_count |-> question_count,
         word_count |-> WordCount(text),
         is_open_ended |->
            question_count > 0
              /\ ~ \E keyword \in yes_no_keywords : Contains(Lower(text), keyword)]

InitHeuristics ==
    /\ InitPipeline
    /\ dialogue = NotCalled
    /\ scoring = NotCalled
    /\ client = NotCalled
    /\ config = NotCalled
    /\ planning = NotCalled
    /\ metrics = NotCalled
    /\ aggregate = NotCalled
    /\ legacy = NotCalled
    /\ heuristics \in {[pc |-> "call", starter |-> s, ai_response |-> s \o r] :
                          s \in OpenStarters \cup ClosedStarters, r \in QuestionRests}

ComputeHeuristics ==
    /\ heuristics.pc = "call"
    /\ heuristics' = [pc |-> "returned", starter |-> heuristics.starter,
                      ai_response |-> heuristics.ai_response,
                      result |-> compute_heuristic_scores_of_text(heuristics.ai_response)]
    /\ UNCHANGED <<today, plannerVars, runnerVars, judgeVars, curatorVars,
                   disturbances, dialogue, scoring, client, config, planning,
                   metrics, aggregate, legacy>>

NextHeuristics == ComputeHeuristics

SpecHeuristics == InitHeuristics /\ [][NextHeuristics]_vars

\* ------------------------------------- the Planner's handler step by step
\* What artifacts/config.json may be when the Planner reads it: a valid
\* config, no object at all, an object that cannot be read or parsed, JSON
\* without a "models" key, JSON whose scenarios have no "id".
StoredConfigs == {"valid", "missing", "unreadable", "no_models", "scenarios_without_id"}

\* The jobs of a config are numbered in the order generate_run_jobs makes them.
batch_size == 10

JobsFrom(i, jobs) == {k \in 1..jobs : k > i /\ k <= i + batch_size}

\* What sqs.send_message_batch may do with a batch: raise, or answer with the
\* entries it took and the entries it refused.
SendOutcomes(batch) ==
    {[raises |-> TRUE, Successful |-> {}, Failed |-> {}]}
      \cup {[raises |-> FALSE, Successful |-> batch \ F, Failed |-> F] :
               F \in {G \in SUBSET batch : Cardinality(G) <= MaxFailed}}

\* Variant of count_enqueued that counts every entry of the batch sent.
count_enqueued_whole_batch(enqueued, response) ==
    enqueued + Cardinality(response.Successful \cup response.Failed)

\* enqueued += len(response.get("Successful", []))
count_enqueued(enqueued, response) ==
    enqueued + Cardinality(response.Successful)

InitPlanning ==
    /\ InitPipeline
    /\ dialogue = NotCalled
    /\ scoring = NotCalled
    /\ client = NotCalled
    /\ config = NotCalled
    /\ heuristics = NotCalled
    /\ metrics = NotCalled
    /\ aggregate = NotCalled
    /\ legacy = NotCalled
    /\ planning \in {[pc |-> "load", stored |-> p[1], config |-> "none",
                      s3_manifest |-> FALSE, manifest_item |-> FALSE,
                      total_jobs |-> p[2], jobs |-> 0, i |-> 0, sends |-> <<>>,
                      queue |-> {}, enqueued |-> 0] :
                         p \in {q \in StoredConfigs \X (0..MaxJobs) :
                                   q[1] = "valid" \/ q[2] = 0}}

PlanningFrame ==
    UNCHANGED <<today, plannerVars, runnerVars, judgeVars, curatorVars,
                disturbances, dialogue, scoring, client, config, heuristics,
                metrics, aggregate, legacy>>

\* load_config: the stored config, the default one when there is no object;
\* any other failure of the read or of json.loads leaves the handler.
LoadConfig ==
    /\ planning.pc = "load"
    /\ planning' =
          IF planning.stored = "unreadable"
          THEN [planning EXCEPT !.pc = "failed"]
          ELSE [planning EXCEPT !.pc = "manifest_s3",
                   !.config = IF planning.stored = "missing" THEN "default"
                              ELSE planning.stored]
    /\ PlanningFrame

\* save_manifest, first half: the manifest document goes to the blob store
\* (the table holds no item of this manifest_id yet).
SaveManifestS3 ==
    /\ planning.pc = "manifest_s3"
    /\ planning' = [planning EXCEPT !.pc = "manifest_item", !.s3_manifest = TRUE]
    /\ PlanningFrame

\* save_manifest, second half: the MANIFEST item, with the lengths of
\* config["models"] and config["scenarios"].
SaveManifestItem ==
    /\ planning.pc = "manifest_item"
    /\ planning' =
          IF planning.config = "no_models"
          THEN [planning EXCEPT !.pc = "failed"]
          ELSE [planning EXCEPT !.pc = "generate", !.manifest_item = TRUE]
    /\ PlanningFrame

\* generate_run_jobs: one job per model and scenario, reading scenario["id"];
\* the scenarios of the default config are plain strings.
GenerateRunJobs ==
    /\ planning.pc = "generate"
    /\ planning' =
          IF planning.config = "valid"
          THEN [planning EXCEPT !.pc = "send", !.jobs = planning.total_jobs]
          ELSE [planning EXCEPT !.pc = "failed"]
    /\ PlanningFrame

\* enqueue_jobs, one iteration of the loop over the batches.
SendBatch ==
    /\ planning.pc = "send"
    /\ planning.i < planning.jobs
    /\ \E response \in SendOutcomes(JobsFrom(planning.i, planning.jobs)) :
          planning' = [planning EXCEPT
              !.i = @ + batch_size,
              !.sends = Append(@, response),
              !.queue = @ \cup response.Successful,
              !.enqueued = IF response.raises THEN @
                           ELSE count_enqueued(@, response)]
    /\ PlanningFrame

\* enqueue_jobs returns its count and the handler its result.
PlannerReturn ==
    /\ planning.pc = "send"
    /\ planning.i >= planning.jobs
    /\ planning' = [planning EXCEPT !.pc = "done"]
    /\ PlanningFrame

NextPlanning ==
    \/ LoadConfig
    \/ SaveManifestS3
    \/ SaveManifestItem
    \/ GenerateRunJobs
    \/ SendBatch
    \/ PlannerReturn

SpecPlanning == InitPlanning /\ [][NextPlanning]_vars

\* ------------------------------------------------ compute_metrics on its own
\* The overall scores of the JUDGE items of a run, in hundredths: below, at
\* and above the threshold.
JudgeScores == {COMPLIANCE_THRESHOLD - 1, COMPLIANCE_THRESHOLD, COMPLIANCE_THRESHOLD + 1}

\* The TURN and JUDGE items of a run with n turns, as load_turn_data returns
\* them: sorted by turn_index, one JUDGE item per TURN item.
TurnList(n) ==
    [k \in 1..n |-> [run_id |-> 1, turn_index |-> k - 1, output_tokens |-> 60]]

JudgeLists(n) ==
    {[k \in 1..n |-> [run_id |-> 1, turn_index |-> k - 1,
                      overall_score |-> score[k],
                      has_question |-> asks[k], is_open_ended |-> asks[k]]] :
        score \in [1..n -> JudgeScores], asks \in [1..n -> BOOLEAN]}

\* The dicts compute_metrics can return: the mean of the scores is rounded
\* by round(x, 2) on a float.
MetricsResults(turns, judges) ==
    {[compute_metrics(turns, judges) EXCEPT !.overall_score = o] :
        o \in Round2(MetricsLoop(judges, 1, 0, 0, -1).sum, Len(judges))}

InitMetrics ==
    /\ InitPipeline
    /\ dialogue = NotCalled
    /\ scoring = NotCalled
    /\ client = NotCalled
    /\ config = NotCalled
    /\ heuristics = NotCalled
    /\ planning = NotCalled
    /\ aggregate = NotCalled
    /\ legacy = NotCalled
    /\ \E n \in 1..MaxTurns :
          metrics \in {[pc |-> "call", turns |-> TurnList(n), judges |-> judges] :
                          judges \in JudgeLists(n)}

ComputeMetrics ==
    /\ metrics.pc = "call"
    /\ \E result \in MetricsResults(metrics.turns, metrics.judges) :
          metrics' = [pc |-> "returned", turns |-> metrics.turns,
                      judges |-> metrics.judges, result |-> result]
    /\ UNCHANGED <<today, plannerVars, runnerVars, judgeVars, curatorVars,
                   disturbances, dialogue, scoring, client, config, heuristics,
                   planning, aggregate, legacy>>

NextMetrics == ComputeMetrics

SpecMetrics == InitMetrics /\ [][NextMetrics]_vars

\* ----------------------------------------- the legacy JudgeRunner on its own
\* The turns of the JSONL file JudgeRunner.run loads: each with the heuristic
\* result written with it (scores in tenths, confidence in hundredths) and
\* no judge result yet.  HeuristicResult.confidence is any value the file
\* holds; _heuristic_score itself writes 0.9, 0.85 or 0.6.
HeuristicConfidences == {60, 80, 85, 90}

HeuristicResults ==
    {[form |-> f, substance |-> 85, purity |-> 90, confidence |-> c] :
        f \in {60, 90}, c \in HeuristicConfidences}

NoJudge == [none |-> TRUE]

LegacyTurnLists ==
    UNION {[1..n -> {[heuristic |-> h, judge |-> NoJudge] : h \in HeuristicResults}] :
              n \in 1..MaxTurns}

\* What self.llm(messages) and the parsing of its answer end in.
JudgeCallOutcomes == {"scores", "not_json", "raises"}

\* Variant of NeedsJudge with the threshold at 0.9.
NeedsJudge_below_09(heuristic) == heuristic.confidence < 90

\* if t.heuristic.confidence < 0.8
NeedsJudge(heuristic) == heuristic.confidence < 80

\* turns_to_judge, as the indices of the turns in the file.
turns_to_judge(turns) == {k \in 1..Len(turns) : NeedsJudge(turns[k].heuristic)}

\* _judge_turn: the parsed scores of the judge model, or in the except
\* branch the turn's heuristic scores.
judge_turn(turn, outcome) ==
    IF outcome = "scores"
    THEN [form |-> 70, substance |-> 70, purity |-> 70, confidence |-> 80,
          rationale |-> "judge"]
    ELSE [form |-> turn.heuristic.form, substance |-> turn.heuristic.substance,
          purity |-> turn.heuristic.purity, confidence |-> 50,
          rationale |-> "Judge failed"]

InitLegacy ==
    /\ InitPipeline
    /\ dialogue = NotCalled
    /\ scoring = NotCalled
    /\ client = NotCalled
    /\ config = NotCalled
    /\ heuristics = NotCalled
    /\ planning = NotCalled
    /\ metrics = NotCalled
    /\ aggregate = NotCalled
    /\ legacy \in {[pc |-> "judging", loaded |-> turns, turns |-> turns,
                    next |-> 1, calls |-> <<>>, written |-> <<>>] :
                       turns \in LegacyTurnLists}

LegacyFrame ==
    UNCHANGED <<today, plannerVars, runnerVars, judgeVars, curatorVars,
                disturbances, dialogue, scoring, client, config, heuristics,
                planning, metrics, aggregate>>

\* One iteration of `for turn in turns_to_judge`: the turns before index
\* next have been gone through.
LegacyJudgeTurn(outcome) ==
    /\ legacy.pc = "judging"
    /\ \E k \in turns_to_judge(legacy.loaded) : k >= legacy.next
    /\ LET k == CHOOSE j \in turns_to_judge(legacy.loaded) :
                   /\ j >= legacy.next
                   /\ \A i \in turns_to_judge(legacy.loaded) : i >= legacy.next => j <= i
       IN  legacy' = [legacy EXCEPT
              !.turns[k].judge = judge_turn(legacy.turns[k], outcome),
              !.calls = Append(@, [turn |-> k, outcome |-> outcome]),
              !.next = k + 1]
    /\ LegacyFrame

\* _write_turns after the loop, and the result "judged".
LegacyWriteTurns ==
    /\ legacy.pc = "judging"
    /\ ~ \E k \in turns_to_judge(legacy.loaded) : k >= legacy.next
    /\ legacy' = [legacy EXCEPT !.pc = "judged", !.written = legacy.turns]
    /\ LegacyFrame

NextLegacy ==
    \/ \E outcome \in JudgeCallOutcomes : LegacyJudgeTurn(outcome)
    \/ LegacyWriteTurns

SpecLegacy == InitLegacy /\ [][NextLegacy]_vars

\* -------------------------------------- update_weekly_aggregate on its own
\* Calls of update_weekly_aggregate for runs of one week and model, one
\* after the other: the aggregate item of the bucket, the summaries folded
\* so far, and how many table calls have raised.
FoldedSummaries ==
    {[overall_score |-> s, compliance_rate |-> c] :
        s \in {33, 50, 67}, c \in {0, 50, 100}}

ReadOutcomes == {"item", "raises"}

\* table.get_item in try / except Exception: a read that raises gives {}.
ExistingAfter(item, read) == IF read = "item" THEN item ELSE NoItem

InitAggregate ==
    /\ InitPipeline
    /\ dialogue = NotCalled
    /\ scoring = NotCalled
    /\ client = NotCalled
    /\ config = NotCalled
    /\ heuristics = NotCalled
    /\ planning = NotCalled
    /\ metrics = NotCalled
    /\ legacy = NotCalled
    /\ aggregate = [pc |-> "folding", item |-> NoItem, folded |-> <<>>,
                    failed |-> 0]

AggregateFrame ==
    UNCHANGED <<today, plannerVars, runnerVars, judgeVars, curatorVars,
                disturbances, dialogue, scoring, client, config, heuristics,
                planning, metrics, legacy>>

\* One call that returns: get_item, the new totals and means, put_item.
FoldSummary(summary, read) ==
    /\ aggregate.pc = "folding"
    /\ Len(aggregate.folded) < MaxFolds
    /\ read = "raises" => aggregate.failed < MaxFailed
    /\ aggregate' = [aggregate EXCEPT
          !.item = update_weekly_aggregate(ExistingAfter(aggregate.item, read), summary),
          !.folded = Append(@, summary),
          !.failed = @ + (IF read = "raises" THEN 1 ELSE 0)]
    /\ AggregateFrame

\* One call whose put_item raises: the item stays, nothing is folded.
FoldSummaryRaises ==
    /\ aggregate.pc = "folding"
    /\ Len(aggregate.folded) < MaxFolds
    /\ aggregate.failed < MaxFailed
    /\ aggregate' = [aggregate EXCEPT !.failed = @ + 1]
    /\ AggregateFrame

NextAggregate ==
    \/ \E summary \in FoldedSummaries, read \in ReadOutcomes :
          FoldSummary(summary, read)
    \/ FoldSummaryRaises

SpecAggregate == InitAggregate /\ [][NextAggregate]_vars

\* ------------------------------------------------------ the Curator alone
\* The pipeline after one plan of config c1 on some day went through the
\* Runner and the Judge: one completed run with its turn scored and a
\* run.judged event on the bus for each delivery of the judge message.
JudgedRunState(date, resp, deliveries) ==
    LET manifest_id == generate_manifest_id("c1", date)
        jobs == generate_run_jobs(manifest_id, "c1", 0)
        job == CHOOSE j \in jobs : TRUE
        turns == run_dialogue(job.max_turns, RunnerReplies, <<resp>>)
        keys == {<<job.run_id, turns[k].turn_index>> : k \in 1..Len(turns)}
    IN  /\ today = date
        /\ manifests = {manifest_id}
        /\ ulidCounter = Cardinality(jobs)
        /\ dialogueQueue = jobs
        /\ planLog = <<[config |-> "c1", manifest_id |-> manifest_id,
                        existed |-> FALSE, enqueued |-> Cardinality(jobs)]>>
        /\ runMeta = [r \in RunIds |->
              IF r = job.run_id
              THEN update_run_status(create_run_item(job, date), "completed",
                                     Len(turns), FALSE)
              ELSE NoItem]
        /\ s3Turns = {[run_id |-> job.run_id, turn_index |-> turns[k].turn_index,
                       ai |-> turns[k].ai] : k \in 1..Len(turns)}
        /\ turnItems = {[run_id |-> job.run_id, turn_index |-> turns[k].turn_index,
                         output_tokens |-> turns[k].ai.tokens] : k \in 1..Len(turns)}
        /\ judgeQueue = [key \in TurnKeys |-> IF key \in keys THEN 1 ELSE 0]
        /\ judgeTaken = [key \in TurnKeys |-> IF key \in keys THEN deliveries ELSE 0]
        /\ s3Judges = keys
        /\ judgeItems =
              {[run_id |-> job.run_id, turn_index |-> turns[k].turn_index,
                overall_score |->
                    compute_vector_scores(turns[k].ai, turns[k].ai.tokens).overall,
                has_question |-> compute_heuristic_scores(turns[k].ai).has_question,
                is_open_ended |-> compute_heuristic_scores(turns[k].ai).is_open_ended] :
                  k \in 1..Len(turns)}
        /\ eventsEmitted = [r \in RunIds |-> IF r = job.run_id THEN deliveries ELSE 0]
        /\ judged = keys
        /\ unreadable = {}
        /\ judge = [w \in JudgeWorkers |-> Idle]
        /\ runner = [w \in RunnerWorkers |-> Idle]
        /\ runnerTaken = [r \in RunIds |-> IF r = job.run_id THEN 1 ELSE 0]
        /\ everCompleted = {job.run_id}
        /\ raised = [r \in RunIds |-> 0]
        /\ disturbances = deliveries - 1

InitCurator ==
    /\ \E date \in 0..MaxDay, resp \in Responses, deliveries \in 1..(1 + MaxDisturbances) :
          JudgedRunState(date, resp, deliveries)
    /\ curatorTaken = [r \in RunIds |-> 0]
    /\ summaries = [r \in RunIds |-> NoItem]
    /\ weekly = [b \in Buckets |-> NoItem]
    /\ curator = [w \in CuratorWorkers |-> Idle]
    /\ folds = {}
    /\ dialogue = NotCalled
    /\ scoring = NotCalled
    /\ client = NotCalled
    /\ config = NotCalled
    /\ heuristics = NotCalled
    /\ planning = NotCalled
    /\ metrics = NotCalled
    /\ aggregate = NotCalled
    /\ legacy = NotCalled

NextCurator ==
    \/ \E run_id \in RunIds : CuratorStart(run_id)
    \/ \E w \in CuratorWorkers :
          \/ CuratorRead(w)
          \/ CuratorWrite(w)

SpecCurator == InitCurator /\ [][NextCurator]_vars

\* The Curator with a second event, for a run whose data its reads do not
\* find: beside the judged run there is a run.judged event of another
\* run_id, for which the table returns no RUN item, no TURN items or no
\* JUDGE items (the bus delivers whatever event matches the rule, and the
\* handler's reads are what decides).
MissingData == {"run", "turns", "judges", "turns_and_judges", "everything"}

InitCuratorMissing ==
    /\ \E date \in 0..MaxDay, resp \in Responses, missing \in MissingData :
          LET manifest_id == generate_manifest_id("c1", date)
              jobs == generate_run_jobs(manifest_id, "c1", 0)
              job == CHOOSE j \in jobs : TRUE
              other == CHOOSE r \in RunIds : r # job.run_id
              turns == run_dialogue(job.max_turns, RunnerReplies, <<resp>>)
              keys == {<<job.run_id, turns[k].turn_index>> : k \in 1..Len(turns)}
              ItemsFor(r, kind) ==
                 IF r = other /\ missing \in {kind, "turns_and_judges", "everything"}
                 THEN {}
                 ELSE IF kind = "turns"
                 THEN {[run_id |-> r, turn_index |-> turns[k].turn_index,
                        output_tokens |-> turns[k].ai.tokens] : k \in 1..Len(turns)}
                 ELSE {[run_id |-> r, turn_index |-> turns[k].turn_index,
                        overall_score |->
                            compute_vector_scores(turns[k].ai, turns[k].ai.tokens).overall,
                        has_question |-> compute_heuristic_scores(turns[k].ai).has_question,
                        is_open_ended |->
                            compute_heuristic_scores(turns[k].ai).is_open_ended] :
                          k \in 1..Len(turns)}
          IN  /\ today = date
              /\ manifests = {manifest_id}
              /\ ulidCounter = Cardinality(jobs)
              /\ dialogueQueue = jobs
              /\ planLog = <<[config |-> "c1", manifest_id |-> manifest_id,
                              existed |-> FALSE, enqueued |-> Cardinality(jobs)]>>
              /\ runMeta = [r \in RunIds |->
                    IF r = other /\ missing \in {"run", "everything"}
                    THEN NoItem
                    ELSE update_run_status(create_run_item(job, date), "completed",
                                           Len(turns), FALSE)]
              /\ s3Turns = {[run_id |-> job.run_id, turn_index |-> turns[k].turn_index,
                             ai |-> turns[k].ai] : k \in 1..Len(turns)}
              /\ turnItems = ItemsFor(job.run_id, "turns") \cup ItemsFor(other, "turns")
              /\ judgeQueue = [key \in TurnKeys |-> IF key \in keys THEN 1 ELSE 0]
              /\ judgeTaken = [key \in TurnKeys |-> IF key \in keys THEN 1 ELSE 0]
              /\ s3Judges = keys
              /\ judgeItems = ItemsFor(job.run_id, "judges") \cup ItemsFor(other, "judges")
              /\ eventsEmitted = [r \in RunIds |-> 1]
              /\ judged = keys
              /\ runnerTaken = [r \in RunIds |-> IF r = job.run_id THEN 1 ELSE 0]
              /\ everCompleted = {job.run_id}
    /\ unreadable = {}
    /\ judge = [w \in JudgeWorkers |-> Idle]
    /\ runner = [w \in RunnerWorkers |-> Idle]
    /\ raised = [r \in RunIds |-> 0]
    /\ disturbances = 0
    /\ curatorTaken = [r \in RunIds |-> 0]
    /\ summaries = [r \in RunIds |-> NoItem]
    /\ weekly = [b \in Buckets |-> NoItem]
    /\ curator = [w \in CuratorWorkers |-> Idle]
    /\ folds = {}
    /\ dialogue = NotCalled
    /\ scoring = NotCalled
    /\ client = NotCalled
    /\ config = NotCalled
    /\ heuristics = NotCalled
    /\ planning = NotCalled
    /\ metrics = NotCalled
    /\ aggregate = NotCalled
    /\ legacy = NotCalled

SpecCuratorMissing == InitCuratorMissing /\ [][NextCurator]_vars

\* The Planner and the Runner alone: what the run and turn stores can hold.
NextRunner ==
    \/ \E cfg \in ConfigIds, date \in 0..MaxDay : Planner(cfg, date)
    \/ \E run_id \in RunIds : RunnerStart(run_id)
    \/ \E w \in RunnerWorkers :
          \/ RunnerDialogue(w)
          \/ RunnerSaveS3(w)
          \/ RunnerSaveItem(w)
          \/ RunnerEnqueue(w)
          \/ RunnerComplete(w)
          \/ RunnerFail(w)

SpecRunner == Init /\ [][NextRunner]_vars

\* The pipeline up to the Judge: what is emitted on the event bus.
NextJudge ==
    \/ NextRunner
    \/ \E key \in TurnKeys : JudgeStart(key)
    \/ \E w \in JudgeWorkers :
          \/ JudgeSave(w)
          \/ JudgeCheck(w)

SpecJudge == Init /\ [][NextJudge]_vars

\* ================================================================ claims
Terminal == {"completed", "failed"}

StatusOf(run_id) ==
    IF runMeta[run_id] = NoItem THEN "none" ELSE runMeta[run_id].status

TurnIndexSet(store, run_id) == {x.turn_index : x \in ItemsOfRun(store, run_id)}

FoldsOf(run_id) == {f \in folds : f.run_id = run_id}
FoldsInto(bucket) == {f \in folds : f.bucket = bucket}

\* Nothing is in flight and every message sent has been delivered.
Quiescent ==
    /\ \A w \in RunnerWorkers : runner[w] = Idle
    /\ \A w \in JudgeWorkers : judge[w] = Idle
    /\ \A w \in CuratorWorkers : curator[w] = Idle
    /\ \A job \in dialogueQueue : runnerTaken[job.run_id] >= 1
    /\ \A key \in TurnKeys : judgeTaken[key] >= judgeQueue[key]
    /\ \A r \in RunIds : curatorTaken[r] >= eventsEmitted[r]

\* C1: a Planner invocation that finds the Manifest of its manifest_id
\* already stored enqueues no job message.
PlannerSkipsExistingManifest ==
    \A k \in 1..Len(planLog) : planLog[k].existed => planLog[k].enqueued = 0

\* C2: a second fold of the same run (a duplicate completion event) leaves
\* run_count and total_score of the run's weekly aggregate as they were.
DuplicateFoldLeavesAggregate ==
    [][\A f \in folds' \ folds :
          f.nth > 1 =>
             /\ weekly[f.bucket] # NoItem
             /\ weekly'[f.bucket].run_count = weekly[f.bucket].run_count
             /\ weekly'[f.bucket].total_score = weekly[f.bucket].total_score]_vars

\* C3: the Judge emits run.judged at its check if and only if the run then
\* has at least one TURN item and a JUDGE item for every TURN item; no
\* event is emitted for a run with a TURN item that has no JUDGE item.
QuorumReached(run_id) ==
    /\ TurnIndexSet(turnItems, run_id) # {}
    /\ \A i \in TurnIndexSet(turnItems, run_id) : i \in TurnIndexSet(judgeItems, run_id)

CompletedRunTurnsFromOne ==
    \A r \in RunIds :
        StatusOf(r) = "completed" =>
            TurnIndexSet(turnItems, r) = 1..runMeta[r].turn_count

\* C4 amended: the TURN items of a completed run carry exactly the
\* turn_index values 0..turn_count-1, one item each.
CompletedRunTurnsFromZero ==
    \A r \in RunIds :
        StatusOf(r) = "completed" =>
            /\ TurnIndexSet(turnItems, r) = 0..(runMeta[r].turn_count - 1)
            /\ Cardinality(ItemsOfRun(turnItems, r)) = runMeta[r].turn_count

CompletedRunTurnsFromZeroWitness ==
    \E r \in RunIds : StatusOf(r) = "completed" /\ runMeta[r].turn_count >= 1

\* C5: a Run's status never leaves completed or failed, whatever is
\* delivered (so it enters a terminal state at most once).
RunStatusMonotonic ==
    [][\A r \in RunIds :
          StatusOf(r) \in Terminal => StatusOf(r)' = StatusOf(r)]_vars

\* C6: once two Curator invocations for different runs have both written
\* the same weekly aggregate, it counts both runs and sums both scores.
ConcurrentFoldsBothCounted ==
    \A b \in Buckets :
        \A f, g \in FoldsInto(b) :
            (f.run_id # g.run_id /\ FoldsInto(b) = {f, g}) =>
                /\ weekly[b].run_count = 2
                /\ weekly[b].total_score = f.overall_score + g.overall_score

\* C7: a Run whose status is failed has no RunSummary and has not been
\* folded into a weekly aggregate.
FailedRunNotAggregated ==
    \A r \in RunIds :
        StatusOf(r) = "failed" => summaries[r] = NoItem /\ FoldsOf(r) = {}

\* C8: no completion event, RunSummary or fold exists for a run that the
\* Runner has not yet marked completed.
NoAggregateFromPartialRun ==
    \A r \in RunIds :
        (eventsEmitted[r] > 0 \/ summaries[r] # NoItem \/ FoldsOf(r) # {})
            => r \in everCompleted

\* C9: one plan of 1 model x 1 scenario with max_turns = 3, undisturbed and
\* run to the end, leaves 1 Run, 3 Turns, 3 ScoreResults, a RunSummary with
\* turn_count = 3 and run_count = 1 in the model's weekly aggregate.
EndToEndThreeTurns ==
    (/\ Len(planLog) = 1
     /\ planLog[1].config = "c1"
     /\ disturbances = 0
     /\ Quiescent)
        => /\ ulidCounter = 1
           /\ StatusOf(1) = "completed"
           /\ Cardinality(ItemsOfRun(turnItems, 1)) = 3
           /\ Cardinality(ItemsOfRun(judgeItems, 1)) = 3
           /\ summaries[1] # NoItem
           /\ summaries[1].turn_count = 3
           /\ weekly[BucketOf(runMeta[1])] # NoItem
           /\ weekly[BucketOf(runMeta[1])].run_count = 1

\* C10: two Planner invocations with the same config compute the same
\* manifest_id, whenever they run.
ManifestIdFromConfigAlone ==
    \A i, j \in 1..Len(planLog) :
        planLog[i].config = planLog[j].config
            => planLog[i].manifest_id = planLog[j].manifest_id

DialogueFailureKeepsTurns ==
    dialogue.pc = "failed" => dialogue.persisted = dialogue.turns

SentFor(r, i) == Cardinality({k \in 1..Len(r.sent) : r.sent[k] = i})

JudgedRunStateNotReached ==
    ~ \E date \in 0..MaxDay, resp \in Responses : JudgedRunState(date, resp, 2)

\* C15: while the stored Turns and ScoreResults of a run stay the same, a
\* further Curator invocation computes the metrics already stored and
\* leaves the stored RunSummary as it was (overwritten with the same
\* values, nothing added up).
SummaryRecomputeIdempotent ==
    [][\A r \in RunIds :
          summaries[r] # NoItem =>
             /\ summaries'[r] = summaries[r]
             /\ \A w \in CuratorWorkers :
                   (curator[w].pc = "idle" /\ curator'[w].pc = "read"
                        /\ curator'[w].run_id = r)
                      => curator'[w].summary = summaries[r]]_vars

SummaryRecomputeIdempotentWitness ==
    \E r \in RunIds :
        /\ summaries[r] # NoItem
        /\ summaries[r].turn_count = 1
        /\ \E f \in FoldsOf(r) : f.nth = 2

\* C17: the verbosity score returned is 1.0 at token_count 50, 0.2 at 10
\* and 0.0 at 350; it is 1.0 for every token_count in 50..150 and not below
\* 0.0 for any token_count above that.
VerbosityCurve ==
    scoring.pc = "returned" =>
        LET token_count == scoring.resp.tokens
            verbosity == scoring.result.scores.verbosity
        IN  /\ token_count = 50 => verbosity = 100
            /\ token_count = 10 => verbosity = 20
            /\ token_count = 350 => verbosity = 0
            /\ token_count \in 50..150 => verbosity = 100
            /\ token_count > 150 => verbosity >= 0

VerbosityCurveWitness ==
    /\ scoring.pc = "returned"
    /\ scoring.resp.tokens > 350
    /\ scoring.result.scores.verbosity = 0

\* C18: the interrogative score returned is 1.0 for exactly one open
\* question, 0.5 for exactly one closed question, 0.0 for no question, and
\* for two or more questions at most the score of one question of the same
\* openness.
InterrogativeTable ==
    scoring.pc = "returned" =>
        LET question_count == scoring.resp.questions
            closed == scoring.resp.yes_no
            interrogative == scoring.result.scores.interrogative
        IN  /\ question_count = 0 => interrogative = 0
            /\ (question_count = 1 /\ ~closed) => interrogative = 100
            /\ (question_count = 1 /\ closed) => interrogative = 50
            /\ (question_count >= 2 /\ ~closed) => interrogative <= 100
            /\ (question_count >= 2 /\ closed) => interrogative <= 50

InterrogativeTableWitness ==
    /\ scoring.pc = "returned"
    /\ scoring.resp.questions = 3
    /\ scoring.resp.yes_no
    /\ scoring.result.scores.interrogative < 50

\* C19: when the judge-model call fails (it raises, or its text is no
\* number), compute_vector_scores still returns a result whose exploratory
\* score is the fallback value, and the result's error field holds the
\* failure's error string.
LlmFailureRecorded ==
    (scoring.pc = "returned" /\ LlmFailed(scoring.outcome)) =>
        /\ scoring.result.scores.exploratory
              = (IF scoring.resp.questions > 0 THEN 50 ELSE 30)
        /\ scoring.result.error # "None"

\* C20: invoke makes at most max_retries backend calls; when it returns,
\* the call it returns the result of is its first successful and its last
\* call; it gives up only after its max_retries-th call, every failed call
\* before that being followed by another; and when all max_retries calls
\* failed with client errors it raises the last call's error.
InvokeRetriesEveryFailure ==
    LET n == Len(client.calls) IN
    client.pc # "none" =>
        /\ n <= client.max_retries
        /\ client.pc = "returned" =>
              /\ client.calls[n] = "ok"
              /\ client.result = n
              /\ \A k \in 1..(n - 1) : client.calls[k] # "ok"
        /\ client.pc = "raised" =>
              /\ n = client.max_retries
              /\ \A k \in 1..n : client.calls[k] # "ok"
              /\ (n > 0 /\ \A k \in 1..n : client.calls[k] \in ClientErrorCodes) =>
                    client.error = [exception |-> client.calls[n], call |-> n]

\* C21: the provider from_dict returns is the registry entry's for the
\* model_id if there is one; else the input's provider field if it has
\* one; else the part of the model_id before its first dot; else, the
\* model_id having no dot, "unknown".
ProviderPrecedence ==
    config.pc = "returned" =>
        LET id == config.data.model_id
            caps == config.MODEL_CAPABILITIES
            provider == config.result.provider
            registered == id \in DOMAIN caps
            explicit == "provider" \in DOMAIN config.data
        IN  /\ registered => provider = caps[id].provider
            /\ (~registered /\ explicit) => provider = config.data.provider
            /\ (~registered /\ ~explicit /\ HasDot(id)) =>
                  /\ Len(provider) < Len(id)
                  /\ \A k \in 1..Len(provider) : provider[k] = id[k] /\ provider[k] # "."
                  /\ id[Len(provider) + 1] = "."
            /\ (~registered /\ ~explicit /\ ~HasDot(id)) => provider = Unknown

ProviderPrecedenceWitness ==
    /\ config.pc = "returned"
    /\ config.data.model_id \in DOMAIN config.MODEL_CAPABILITIES
    /\ "provider" \in DOMAIN config.data
    /\ config.result.provider = <<"r">>

\* C22: a response with one question that opens with What, Why, How, When,
\* Where or Which is classified open-ended, and one that opens with Is, Do,
\* Does, Can, Should, Would, Will or Are is classified not open-ended.
StarterDecidesOpenEnded ==
    (heuristics.pc = "returned" /\ heuristics.result.question_count = 1) =>
        /\ heuristics.starter \in OpenStarters => heuristics.result.is_open_ended
        /\ heuristics.starter \in ClosedStarters => ~heuristics.result.is_open_ended

\* C23: once the Runner has persisted every Turn of a run and the judge
\* message of each of its Turns has been processed to the end without
\* raising, at least one run.judged event of the run has been emitted,
\* whichever way the Judge invocations interleave.
RunnerAt(run_id) ==
    \E w \in RunnerWorkers : runner[w] # Idle /\ runner[w].job.run_id = run_id

AllTurnsJudged(run_id) ==
    /\ ~RunnerAt(run_id)
    /\ ItemsOfRun(turnItems, run_id) # {}
    /\ \A t \in ItemsOfRun(turnItems, run_id) : <<run_id, t.turn_index>> \in judged

OneTurnPerKey ==
    /\ \A x, y \in turnItems :
          (x.run_id = y.run_id /\ x.turn_index = y.turn_index) => x = y
    /\ \A x, y \in s3Turns :
          (x.run_id = y.run_id /\ x.turn_index = y.turn_index) => x = y

\* Two executions of the same job have both saved the Turn of an index,
\* with different responses.
OneTurnPerKeyWitness ==
    \E w1, w2 \in RunnerWorkers :
        /\ w1 # w2
        /\ runner[w1] # Idle /\ runner[w2] # Idle
        /\ runner[w1].job.run_id = runner[w2].job.run_id
        /\ runner[w1].saved \cap runner[w2].saved # {}
        /\ runner[w1].turns # runner[w2].turns
        /\ Cardinality(ItemsOfRun(turnItems, runner[w1].job.run_id)) = 1

\* C25: when the Planner's handler returns, every job it generated is in
\* the queue: an entry whose send failed has been sent again.
EveryJobEnqueued ==
    planning.pc = "done" => planning.queue = 1..planning.jobs

\* C26: in enqueue_jobs a refused entry or a batch send that raises does not
\* stop the later batches (every batch is sent once, in order), and the
\* count returned is the number of entries the queue answered as Successful.
RECURSIVE SuccessfulIn(_)
SuccessfulIn(sends) ==
    IF Len(sends) = 0 THEN 0
    ELSE Cardinality(sends[Len(sends)].Successful)
            + SuccessfulIn(SubSeq(sends, 1, Len(sends) - 1))

EnqueueJobsCountsSuccessful ==
    planning.pc = "done" =>
        /\ Len(planning.sends) * batch_size >= planning.jobs
        /\ (Len(planning.sends) - 1) * batch_size < planning.jobs \/ planning.jobs = 0
        /\ \A k \in 1..Len(planning.sends) :
              LET batch == JobsFrom((k - 1) * batch_size, planning.jobs) IN
              planning.sends[k].raises
                 \/ planning.sends[k].Successful \cup planning.sends[k].Failed = batch
        /\ planning.enqueued = SuccessfulIn(planning.sends)

\* The first of two batches failed (it raised or an entry was refused), the
\* second was sent all the same and the handler returned.
EnqueueJobsCountsSuccessfulWitness ==
    /\ planning.pc = "done"
    /\ Len(planning.sends) = 2
    /\ planning.sends[1].raises \/ planning.sends[1].Failed # {}
    /\ planning.sends[2].Successful # {}
    /\ planning.enqueued > 0

\* C27: when the stored config is missing, unreadable or invalid, the
\* Planner's handler fails, and it has then persisted no Manifest and
\* enqueued no job.
ConfigFailureLeavesNothing ==
    (planning.pc \in {"done", "failed"} /\ planning.stored # "valid") =>
        /\ planning.pc = "failed"
        /\ ~planning.s3_manifest
        /\ ~planning.manifest_item
        /\ planning.queue = {}

\* C28: run_dialogue always comes to an end, and what it returns has at most
\* max_turns turns: with k simulated replies and max_turns >= 1 it has
\* min(max_turns, k + 1) turns, the loop stopping early exactly when no
\* further student utterance is left.
DialogueEndsWithinMaxTurns ==
    /\ <>(dialogue.pc \in {"completed", "failed"})
    /\ [](dialogue.pc = "completed" =>
            /\ Len(dialogue.turns) <= dialogue.max_turns
            /\ dialogue.max_turns >= 1 =>
                  Len(dialogue.turns) =
                      Min(dialogue.max_turns, Len(dialogue.replies) + 1)
            /\ Len(dialogue.turns) < dialogue.max_turns <=>
                  Len(dialogue.replies) + 1 < dialogue.max_turns)

\* A dialogue that used its one simulated reply and stopped after two of the
\* three turns it was allowed.
DialogueEndsWithinMaxTurnsWitness ==
    /\ dialogue.pc = "completed"
    /\ dialogue.max_turns = 3
    /\ Len(dialogue.replies) = 1
    /\ Len(dialogue.turns) = 2

\* C29: the prompt of every follow-up turn renders the whole conversation so
\* far: for each earlier turn, in order, the student's utterance of that
\* turn and then the model's response to it, each once, and after them the
\* student's utterance of the current turn.
Utterance(replies, turn_index) ==
    IF turn_index = 0 THEN ScenarioPrompt ELSE replies[turn_index]

RECURSIVE EarlierTurns(_, _, _)
EarlierTurns(replies, turns, turn_index) ==
    IF turn_index = 0 THEN <<>>
    ELSE EarlierTurns(replies, turns, turn_index - 1)
            \o <<Said("student", Utterance(replies, turn_index - 1)),
                 Said("ai", turns[turn_index].ai)>>

FollowupPromptFullHistory ==
    \A k \in 2..Len(dialogue.turns) :
        dialogue.turns[k].prompt.lines =
            EarlierTurns(dialogue.replies, dialogue.turns, k - 1)
               \o <<Said("student", Utterance(dialogue.replies, k - 1))>>

\* C30: a delivery of a judge message whose Turn cannot be loaded raises,
\* so that the message stays to be retried; in that delivery no Judge
\* invocation goes on to the save or the check, no judge object and no
\* JUDGE item is written and no run.judged event is emitted.
UnreadableTurnRaises ==
    [][\A key \in TurnKeys :
          key \in unreadable' \ unreadable =>
             /\ judgeTaken'[key] = judgeTaken[key] + 1
             /\ judge' = judge
             /\ judged' = judged
             /\ s3Judges' = s3Judges
             /\ judgeItems' = judgeItems
             /\ eventsEmitted' = eventsEmitted]_vars

\* The only delivery of a Turn's judge message so far could not load the
\* Turn: nothing is judged, stored or emitted for it.
UnreadableTurnRaisesWitness ==
    \E key \in unreadable :
        /\ judgeTaken[key] = 1
        /\ key \notin judged
        /\ key \notin s3Judges
        /\ ItemsOfRun(judgeItems, key[1]) = {}
        /\ eventsEmitted[key[1]] = 0

\* C31: a call that times out is retried with backoff like any transient
\* failure: when invoke raises a timeout, that was its max_retries-th call
\* and it has slept 2, 4, ... seconds between the calls before it.
TimeoutRetriedUntilExhausted ==
    (client.pc = "raised" /\ client.error.exception \in Timeouts) =>
        /\ Len(client.calls) = client.max_retries
        /\ client.slept = 2 ^ Len(client.calls) - 2

\* C32 as stated: the half-life of a summary is the turn_index of the first
\* judged turn, in turn order, whose score is below the threshold, and it
\* is null (no number) when no turn is below the threshold.
BelowThreshold(judges) ==
    {k \in 1..Len(judges) : judges[k].overall_score < COMPLIANCE_THRESHOLD}

FirstBelow(judges) ==
    judges[CHOOSE k \in BelowThreshold(judges) :
              \A j \in BelowThreshold(judges) : k <= j].turn_index

HalfLifeFirstBelowOrNull ==
    metrics.pc = "returned" =>
        IF BelowThreshold(metrics.judges) # {}
        THEN metrics.result.half_life = FirstBelow(metrics.judges)
        ELSE metrics.result.half_life \notin Nat

\* C32: the half-life of a summary is the turn_index of the first judged
\* turn, in turn order, whose score is below the threshold, and it is the
\* run's number of turns when no turn is below the threshold.
HalfLifeFirstBelowOrTurnCount ==
    metrics.pc = "returned" =>
        IF BelowThreshold(metrics.judges) # {}
        THEN metrics.result.half_life = FirstBelow(metrics.judges)
        ELSE metrics.result.half_life = Len(metrics.turns)

\* A run of three turns whose second and third turn are below the
\* threshold: the half-life is 1.
HalfLifeFirstBelowOrTurnCountWitness ==
    /\ metrics.pc = "returned"
    /\ Len(metrics.judges) = 3
    /\ BelowThreshold(metrics.judges) = {2, 3}
    /\ metrics.result.half_life = 1

\* C33: the compliance_rate of a summary is, to the two decimals the summary
\* keeps, the number of the run's turns whose score is at or above the
\* threshold (a score equal to it counts) divided by the number of turns.
AtOrAbove(judges) ==
    {k \in 1..Len(judges) : judges[k].overall_score >= COMPLIANCE_THRESHOLD}

ComplianceRateIsFraction ==
    metrics.pc = "returned" =>
        LET n == Len(metrics.turns)
            count == Cardinality(AtOrAbove(metrics.judges))
            rate == metrics.result.compliance_rate
        IN  /\ 2 * (rate * n - 100 * count) <= n
            /\ 2 * (100 * count - rate * n) <= n

\* A run of three turns with one turn exactly at the threshold and two
\* below: the rate is 0.33.
ComplianceRateIsFractionWitness ==
    /\ metrics.pc = "returned"
    /\ Len(metrics.judges) = 3
    /\ Cardinality(AtOrAbove(metrics.judges)) = 1
    /\ \E k \in 1..3 : metrics.judges[k].overall_score = COMPLIANCE_THRESHOLD
    /\ metrics.result.compliance_rate = 33

\* C34 as stated: the overall score of a result is the arithmetic mean of
\* the verbosity, interrogative and exploratory scores of the same result
\* (to the two decimals it is reported with: the hundredth nearest to it).
OverallIsMeanOfReported ==
    scoring.pc = "returned" =>
        LET s == scoring.result.scores
            sum == s.verbosity + s.interrogative + s.exploratory
        IN  /\ 2 * (3 * s.overall - sum) <= 3
            /\ 2 * (sum - 3 * s.overall) <= 3

\* C34: the overall score of a result is the mean of the three scores as
\* computed, rounded to two decimals; it lies less than 0.01 from the
\* arithmetic mean of the three rounded scores reported in the same result.
OverallNearMeanOfReported ==
    scoring.pc = "returned" =>
        LET s == scoring.result.scores
            sum == s.verbosity + s.interrogative + s.exploratory
        IN  /\ 3 * s.overall - sum < 3
            /\ sum - 3 * s.overall < 3

\* 151 tokens, two closed questions: verbosity 0.99 (from 0.995),
\* exploratory 0.6, interrogative 0.4 and overall 0.67, the mean of the
\* reported scores being 0.6633.
OverallNearMeanOfReportedWitness ==
    /\ scoring.pc = "returned"
    /\ scoring.resp.tokens = 151
    /\ scoring.result.scores.verbosity = 99
    /\ scoring.result.scores.exploratory = 60
    /\ scoring.result.scores.interrogative = 40
    /\ scoring.result.scores.overall = 67

\* C35: the legacy JudgeRunner calls the judge model for a turn only when
\* the turn's heuristic confidence is below 0.8, and once; a turn with a
\* confidence of 0.8 or more is written back with its heuristic result and
\* without a judge result; a judge call that fails gives the turn a judge
\* result with the heuristic's scores, and the run ends judged all the same.
CallsFor(k) == {c \in 1..Len(legacy.calls) : legacy.calls[c].turn = k}

JudgeOnlyBelowConfidence ==
    legacy.pc # "none" =>
        /\ \A c \in 1..Len(legacy.calls) :
              legacy.loaded[legacy.calls[c].turn].heuristic.confidence < 80
        /\ legacy.pc \in {"judging", "judged"}
        /\ legacy.pc = "judged" =>
              \A k \in 1..Len(legacy.loaded) :
                 LET before == legacy.loaded[k]
                     after == legacy.written[k]
                 IN  /\ after.heuristic = before.heuristic
                     /\ before.heuristic.confidence >= 80 =>
                           CallsFor(k) = {} /\ after.judge = NoJudge
                     /\ before.heuristic.confidence < 80 =>
                           /\ Cardinality(CallsFor(k)) = 1
                           /\ after.judge # NoJudge
                           /\ \A c \in CallsFor(k) :
                                 legacy.calls[c].outcome # "scores" =>
                                    /\ after.judge.form = before.heuristic.form
                                    /\ after.judge.substance = before.heuristic.substance
                                    /\ after.judge.purity = before.heuristic.purity

\* A file of two turns, one with confidence 0.8 and one below it whose
\* judge call raised, has been written back.
JudgeOnlyBelowConfidenceWitness ==
    /\ legacy.pc = "judged"
    /\ Len(legacy.loaded) = 2
    /\ legacy.loaded[1].heuristic.confidence = 80
    /\ legacy.loaded[2].heuristic.confidence < 80
    /\ legacy.calls = <<[turn |-> 2, outcome |-> "raises"]>>
    /\ legacy.written[2].judge.rationale = "Judge failed"

\* C36: in every state a JUDGE item of a run and turn index is in the table
\* only if the TURN item of the same run and turn index is; so a run never
\* has more JUDGE items than TURN items, and when it has as many, the two
\* sets of turn indices are the same.
ScoreResultOnlyForTurn ==
    /\ \A j \in judgeItems :
          \E t \in turnItems :
             t.run_id = j.run_id /\ t.turn_index = j.turn_index
    /\ \A r \in RunIds :
          LET turn_count == Cardinality(ItemsOfRun(turnItems, r))
              judge_count == Cardinality(ItemsOfRun(judgeItems, r))
          IN  /\ judge_count <= turn_count
              /\ judge_count = turn_count =>
                    TurnIndexSet(judgeItems, r) = TurnIndexSet(turnItems, r)

\* One run has its turn saved and judged, another has its turn saved and
\* not yet judged.
ScoreResultOnlyForTurnWitness ==
    \E r, s \in RunIds :
        /\ ItemsOfRun(judgeItems, r) # {}
        /\ TurnIndexSet(judgeItems, r) = TurnIndexSet(turnItems, r)
        /\ ItemsOfRun(turnItems, s) # {}
        /\ ItemsOfRun(judgeItems, s) = {}

\* The turn keys a store of turn bundles or TURN items holds.
KeysIn(store) == {<<x.run_id, x.turn_index>> : x \in store}

\* C37: a scoring job for a run and turn index is enqueued only when the
\* Turn is already in the blob store and in the table; an execution of the
\* Runner in which a write of a Turn fails has enqueued no job for that
\* Turn, and from the failure on it writes no Turn and enqueues no job: its
\* one remaining step marks the Run failed.
JobOnlyAfterTurnWritten ==
    [][/\ \A key \in TurnKeys :
             judgeQueue'[key] > judgeQueue[key] =>
                key \in KeysIn(s3Turns) \cap KeysIn(turnItems)
       /\ \A w \in RunnerWorkers :
             /\ (runner[w].pc \in {"s3", "ddb"} /\ runner'[w].pc # runner[w].pc
                   /\ runner'[w].pc # (IF runner[w].pc = "s3" THEN "ddb" ELSE "enqueue")) =>
                   /\ runner'[w].pc = "fail"
                   /\ UNCHANGED <<s3Turns, turnItems, judgeQueue>>
                   /\ runner'[w].sent = runner[w].sent
                   /\ \A k \in 1..Len(runner[w].sent) :
                         runner[w].sent[k] # runner[w].turns[runner[w].idx].turn_index
             /\ (runner[w].pc = "fail" /\ runner'[w] # runner[w]) =>
                   /\ runner'[w] = Idle
                   /\ UNCHANGED <<s3Turns, turnItems, judgeQueue>>
                   /\ runMeta'[runner[w].job.run_id].status = "failed"]_vars

\* An execution failed at the put_item of its Turn: the Turn is in the blob
\* store and not in the table, the execution has sent nothing, no job for
\* the Turn is in the queue, and the step that is left marks the Run failed.
JobOnlyAfterTurnWrittenWitness ==
    \E w \in RunnerWorkers :
        /\ runner[w].pc = "fail"
        /\ runner[w].saved = {}
        /\ runner[w].sent = <<>>
        /\ <<runner[w].job.run_id, 0>> \in KeysIn(s3Turns) \ KeysIn(turnItems)
        /\ judgeQueue[<<runner[w].job.run_id, 0>>] = 0

RECURSIVE SumField(_, _)
SumField(summaries_, field) ==
    IF summaries_ = <<>> THEN 0
    ELSE Head(summaries_)[field] + SumField(Tail(summaries_), field)

\* C38: after calls of update_weekly_aggregate for one bucket, one after the
\* other, the aggregate's run_count is the number of calls that folded a
\* run, its totals are the sums of the folded overall_score and
\* compliance_rate, and its means are the totals over run_count, to the two
\* decimals stored.
AggregateCountsEveryFold ==
    (aggregate.pc = "folding" /\ aggregate.folded # <<>>) =>
        /\ aggregate.item.run_count = Len(aggregate.folded)
        /\ aggregate.item.total_score = SumField(aggregate.folded, "overall_score")
        /\ aggregate.item.total_compliance =
              SumField(aggregate.folded, "compliance_rate")
        /\ aggregate.item.mean_score =
              RoundHalfEven(aggregate.item.total_score, aggregate.item.run_count)
        /\ aggregate.item.mean_compliance =
              RoundHalfEven(aggregate.item.total_compliance, aggregate.item.run_count)

\* What the Curator's reads find of a run.
RunDataMissing(run_id) ==
    \/ runMeta[run_id] = NoItem
    \/ ItemsOfRun(turnItems, run_id) = {}
    \/ ItemsOfRun(judgeItems, run_id) = {}

\* C39: a delivery of a run.judged event for a run that has no RUN item, no
\* TURN items or no JUDGE items ends in curate_run raising: no Curator
\* invocation goes on with the run, and the delivery leaves every RunSummary
\* (with its curated blob), every weekly aggregate and the record of folds
\* as they were.
MissingDataLeavesStores ==
    [][\A r \in RunIds :
          (curatorTaken'[r] = curatorTaken[r] + 1 /\ RunDataMissing(r)) =>
             /\ curator' = curator
             /\ summaries' = summaries
             /\ weekly' = weekly
             /\ folds' = folds]_vars

\* The judged run has been summarised and folded, the event of the run
\* with missing data has been delivered after that, and there is no
\* summary of that run and one fold in all.
MissingDataLeavesStoresWitness ==
    \E r, s \in RunIds :
        /\ RunDataMissing(s)
        /\ curatorTaken[s] >= 1
        /\ summaries[s] = NoItem
        /\ summaries[r] # NoItem
        /\ Cardinality(folds) = 1
        /\ \A f \in folds : f.run_id = r
        /\ \A w \in CuratorWorkers : curator[w] = Idle
====
